---- MODULE Spec2Model ----
(***************************************************************************)
(* Model of the ETF order solver: the QueueManager (priority queues, the   *)
(* rate window and the in-flight gate), the OrderProcessor (the dispatcher *)
(* tick and the per-instruction lifecycle) and the submission routes.      *)
(*                                                                         *)
(* Seven specifications share the state:                                    *)
(*   Spec        the QueueManager driven through its public methods by one *)
(*               client that awaits each call (the unit tests' use);       *)
(*   SpecOverlap the same, with a second client whose getNextBatch call    *)
(*               may start while the first is suspended in the estimator;  *)
(*   SpecProc    the assembled program: the routes of index.js submit      *)
(*               instructions and the processor's tick dispatches them;    *)
(*   SpecDirect  a client that fills the queues itself and calls           *)
(*               processOrder on Orders of its own (the unit tests' use).  *)
(*   SpecRebalance  the RebalanceManager's runs on one basket;             *)
(*   SpecEstimator  analyzeOrderLiquidity on baskets, quantities, books;   *)
(*   SpecVenue   the venue adapter's rate limiter under concurrent calls.  *)
(***************************************************************************)
EXTENDS Integers, Sequences, FiniteSets, TLC

(***************************************************************************)
(* Program constants.                                                      *)
(***************************************************************************)
RATE_LIMIT == 100
RATE_LIMIT_WINDOW_MS == 10000

\* Order of Object.keys(this.queues): the order every lookup walks the kinds in.
Types == <<"buy", "sell", "cancel", "rebalance">>
Kinds == {"buy", "sell", "cancel", "rebalance"}

\* null in an Order's quantity / indexPrice (cancel, rebalance), and a lookup
\* that finds nothing.
Null == 0
\* null in an Order's indexId (cancel).
NoIndex == "null"
\* A field left out of the details passed to updateStatus.
Undefined == -1

(***************************************************************************)
(* Bounds of the model.                                                    *)
(***************************************************************************)
\* Most submission bursts in a run of Spec / SpecOverlap.
MaxBursts == 2
\* The clock stops advancing here.
MaxTime == 10000
\* Most getNextBatch calls in a run.
MaxCalls == 3
\* Most instructions ever submitted in a run of SpecProc.
MaxProcOrders == 3
\* Most Orders the client creates in a run of SpecDirect.
MaxClientOrders == 2

\* One advance of the clock: a whole rate window.
ClockStep == RATE_LIMIT_WINDOW_MS
\* Sizes of a submission burst (n consecutive queueOrder calls of one kind).
BurstSizes == {RATE_LIMIT \div 2, RATE_LIMIT}
\* The basket of the tests: A(1 x 10) + B(2 x 5) + C(5 x 2) = 30.
IndexIds == {"idx"}
BasketPrice == 30
\* Limit prices below, at and above the basket price.
Limits == {25, 30, 35}
\* Limit prices of the orders of a burst.
BurstLimits == {25, 35}
Quantities == {10}
\* Outcomes of the simulated per-asset liquidity draw, min(100, random*100+50).
FillLevels == {50, 100}
\* Clients calling getNextBatch.
Callers == {1, 2}

VARIABLES
  orders,               \* the Order objects created, grouped by submission
  life,                 \* the mutable fields of the orders touched since creation
  queues,               \* QueueManager.queues: kind -> sequence of orders
  processing,           \* QueueManager.processing
  executionHistory,     \* QueueManager.executionHistory
  lastBatchTime,        \* QueueManager.lastBatchTime
  ordersInCurrentBatch, \* QueueManager.ordersInCurrentBatch
  isProcessing,         \* QueueManager.isProcessing
  now,                  \* Date.now()
  indices,              \* index.js indices: basket id -> current price
  positions,            \* index.js positions: position id -> order
  call,                 \* per client: the getNextBatch call in progress
  ret,                  \* per client: what its last getNextBatch call returned
  nCalls,               \* getNextBatch calls made so far
  proc,                 \* OrderProcessor: the tick in progress
  rebal,                \* a basket's assets and the RebalanceManager's runs on it
  est,                  \* the last analyzeOrderLiquidity call: inputs and result
  venue                 \* BinanceAdapter: the rate limiter and its pending callers

qmVars == <<queues, processing, executionHistory, lastBatchTime,
            ordersInCurrentBatch, isProcessing>>
\* The queue manager, the order processor and the routes.
solverVars == <<orders, life, queues, processing, executionHistory, lastBatchTime,
                ordersInCurrentBatch, isProcessing, now, indices, positions,
                call, ret, nCalls, proc>>
vars == <<orders, life, queues, processing, executionHistory, lastBatchTime,
          ordersInCurrentBatch, isProcessing, now, indices, positions,
          call, ret, nCalls, proc, rebal, est, venue>>

(***************************************************************************)
(* Helpers for the array operations the code uses.                         *)
(***************************************************************************)
Min(a, b) == IF a < b THEN a ELSE b
Max(a, b) == IF a > b THEN a ELSE b

\* Faulty variant of splice: the array keeps what was taken from it.
SpliceRestKeepsAll(s, k) == s

\* array.splice(0, k): the elements removed (a negative k removes none) ...
SpliceHead(s, k) == SubSeq(s, 1, Min(Max(k, 0), Len(s)))
\* ... and the elements left in the array.
SpliceRest(s, k) == SubSeq(s, Min(Max(k, 0), Len(s)) + 1, Len(s))

\* array.splice(i, 1)
RemoveAt(s, i) == SubSeq(s, 1, i - 1) \o SubSeq(s, i + 1, Len(s))

Range(s) == {s[i] : i \in 1..Len(s)}

(***************************************************************************)
(* Order model.                                                            *)
(***************************************************************************)
\* new Order(type, positionId, indexId, quantity, indexPrice): the fields set
\* once. An order is named by its object identity oid; id is its id field.
NewOrder(id, type, positionId, indexId, quantity, indexPrice) ==
  [id |-> id, type |-> type, positionId |-> positionId, indexId |-> indexId,
   quantity |-> quantity, indexPrice |-> indexPrice]

\* ... and the fields updateStatus changes: status pending, nothing filled, an
\* empty execution log. notes is the length of executionDetails; nAnalyze,
\* nExecute and nCancel count the liquidity analyses and the venue calls issued
\* for the order, nPlan and nRebalance the createRebalancePlan and
\* executeRebalance calls.
\* stage is where processOrder is suspended for the order ("none": nowhere);
\* target and queued record what a cancel resolved: the order it found, and
\* whether it found it pending in a queue; planned is the total quantity of
\* the assetOrders handed to the venue while its answer is awaited.
FreshLife ==
  [status |-> "pending", fillPercentage |-> 0, loss |-> 0, notes |-> 0,
   nAnalyze |-> 0, nExecute |-> 0, nCancel |-> 0, nPlan |-> 0, nRebalance |-> 0,
   stage |-> "none", target |-> Null, queued |-> FALSE, planned |-> 0]

\* order.updateStatus(status, details): fillPercentage and loss change when
\* given, a note is appended when details.execution is given.
updateStatus(l, status, fillPercentage, loss, execution) ==
  [l EXCEPT !.status = status,
            !.fillPercentage = IF fillPercentage # Undefined THEN fillPercentage ELSE @,
            !.loss = IF loss # Undefined THEN loss ELSE @,
            !.notes = IF execution THEN @ + 1 ELSE @]

\* A map (the position registry, the orders' mutable fields) after set(k, v).
Put(f, k, v) == [x \in DOMAIN f \cup {k} |-> IF x = k THEN v ELSE f[x]]

\* Object identities are dealt out in blocks, one block per submission.
OidStride == 1000

\* The orders of one submission: n orders of one kind created in a row, the
\* i-th with object identity first + i and a position id of its own (that
\* identity) unless the submission names one.
Submission(first, n, type, positionId, indexId, quantity, indexPrice) ==
  [first |-> first, n |-> n, type |-> type, positionId |-> positionId,
   indexId |-> indexId, quantity |-> quantity, indexPrice |-> indexPrice]

OrderIds == UNION {{orders[k].first + i : i \in 1..orders[k].n} : k \in 1..Len(orders)}

\* order.id and order.type of the Order object oid ...
OrderId(oid) == oid
OrderType(oid) == orders[oid \div OidStride].type

\* ... and the whole object.
Order(oid) ==
  LET b == orders[oid \div OidStride]
  IN NewOrder(OrderId(oid), b.type,
              IF b.positionId = Null THEN oid ELSE b.positionId,
              b.indexId, b.quantity, b.indexPrice)

Get(lf, oid) == IF oid \in DOMAIN lf THEN lf[oid] ELSE FreshLife
Life(oid) == Get(life, oid)

\* array.findIndex(o => o.id === id): 0 stands for -1.
FindIndexById(s, id) ==
  IF \E i \in 1..Len(s) : OrderId(s[i]) = id
  THEN CHOOSE i \in 1..Len(s) :
         /\ OrderId(s[i]) = id
         /\ \A j \in 1..(i - 1) : OrderId(s[j]) # id
  ELSE 0

\* array.findIndex(o => o.positionId === p): 0 stands for -1.
FindIndexByPosition(s, p) ==
  IF \E i \in 1..Len(s) : Order(s[i]).positionId = p
  THEN CHOOSE i \in 1..Len(s) :
         /\ Order(s[i]).positionId = p
         /\ \A j \in 1..(i - 1) : Order(s[j]).positionId # p
  ELSE 0

\* Order.isActive() and Order.isComplete(), of the status.
isActiveStatus(status) == status \in {"pending", "processing"}
isCompleteStatus(status) == status \in {"filled", "canceled", "failed"}

(***************************************************************************)
(* Index model: a basket is abstracted to its current price.               *)
(***************************************************************************)
getCurrentPrice(indexId) == indices[indexId]

(***************************************************************************)
(* LiquidityAnalyzer: the coarse check that ranks buy/sell instructions.   *)
(***************************************************************************)
\* getAssetLiquidity draws at random for every asset of every order; the worst
\* asset's draw of an order is chosen here by a pattern over the orders: every
\* order draws alike, or every second one draws better.  The quick check of
\* the orders of one submission may throw (throws names the submission; 0: none).
ThrowingSubmissions == {0, 1}
DrawPatterns == [even : {50}, odd : FillLevels, throws : {0}]
TickPatterns == [even : {50}, odd : FillLevels, throws : ThrowingSubmissions]
WorstAssetDraw(pat, oid) == IF oid % 2 = 0 THEN pat.even ELSE pat.odd

\* quickLiquidityCheck: 0 for a buy below / a sell above the basket price,
\* else the worst asset's fillable percentage.
quickLiquidityCheck(o, currentPrice, draw) ==
  IF o.type = "buy" /\ o.indexPrice < currentPrice THEN 0
  ELSE IF o.type = "sell" /\ o.indexPrice > currentPrice THEN 0
  ELSE draw

\* The quick check of this order throws.
quickCheckThrows(o, pat) == pat.throws = o.id \div OidStride

\* Faulty variant: an error of the quick check is not turned into fillable 0.
FillableUncaught(o, pat) ==
  IF o.indexId \notin DOMAIN indices THEN 0
  ELSE quickLiquidityCheck(o, getCurrentPrice(o.indexId), WorstAssetDraw(pat, o.id))

\* prioritizeOrders, per order: fillable 0 when the basket is unknown and when
\* the quick check throws (the catch around it).
Fillable(o, pat) ==
  IF o.indexId \notin DOMAIN indices THEN 0
  ELSE IF quickCheckThrows(o, pat) THEN 0
  ELSE quickLiquidityCheck(o, getCurrentPrice(o.indexId), WorstAssetDraw(pat, o.id))

\* notional = quantity * indexPrice * fillable / 100, kept in hundredths.
Notional(o, fillable) == o.quantity * o.indexPrice * fillable

\* The entry prioritizeOrders makes for an order: <<order, fillable, notional>>.
Scored(oid, pat) ==
  LET o == Order(oid)
      fillable == Fillable(o, pat)
  IN <<oid, fillable, Notional(o, fillable)>>

\* Faulty variant of the comparator: the least fillable first.
RanksBeforeAscending(e1, e2) == e1[2] < e2[2] \/ (e1[2] = e2[2] /\ e1[3] < e2[3])

\* The comparator of prioritizeOrders over entries <<order, fillable, notional>>:
\* fillable descending, then notional descending.
RanksBefore(e1, e2) == e1[2] > e2[2] \/ (e1[2] = e2[2] /\ e1[3] > e2[3])

\* Array.prototype.sort with that comparator (stable): the entries of the best
\* rank in their given order, then the rest. ranks are the <<fillable, notional>>
\* pairs present.
RECURSIVE SortByRank(_, _)
SortByRank(entries, ranks) ==
  IF ranks = {} THEN <<>>
  ELSE LET best == CHOOSE k \in ranks :
                     \A k2 \in ranks \ {k} : RanksBefore(<<0, k[1], k[2]>>, <<0, k2[1], k2[2]>>)
       IN SelectSeq(entries, LAMBDA e : <<e[2], e[3]>> = best)
            \o SortByRank(entries, ranks \ {best})

\* Faulty variant: the estimator ignores the limit.
SliceNothing(s, limit) == s

\* .slice(0, limit)
SliceLimit(s, limit) == SubSeq(s, 1, Min(Max(limit, 0), Len(s)))

\* prioritizeOrders(orders, indices, limit): score every order, keep those with
\* some liquidity, sort, cut to the limit, and hand back the orders.
prioritizeOrders(all, pat, limit) ==
  LET ordersWithData == SubSeq([i \in 1..Len(all) |-> Scored(all[i], pat)],
                               1, Len(all))
      liquid == SelectSeq(ordersWithData, LAMBDA e : e[2] > 0)
      ranks == {<<liquid[i][2], liquid[i][3]>> : i \in 1..Len(liquid)}
      prioritized == SliceLimit(SortByRank(liquid, ranks), limit)
  IN [i \in 1..Len(prioritized) |-> prioritized[i][1]]

(***************************************************************************)
(* QueueManager.                                                           *)
(***************************************************************************)
\* Kinds a client's own Order may carry besides the four: one that names
\* nothing, and one that names a member every object inherits from
\* Object.prototype.
InheritedKeys == {"constructor"}
ClientKinds == Kinds \cup {"swap"} \cup InheritedKeys

\* this.queues[order.type] is truthy (line 34): a queue of the object, or a
\* member it inherits.
queueFound(type) == type \in Kinds \cup InheritedKeys

\* What queueOrder(order) gives its caller: false from the test of line 34,
\* true after the push, or the TypeError of a push on a member that is no array.
queueOrderOutcome(type) ==
  IF ~queueFound(type) THEN "false"
  ELSE IF type \in Kinds THEN "true"
  ELSE "TypeError"

\* queueOrder(order) of a valid kind: push at the tail of its queue.
queueOrder(q, oid, type) == [q EXCEPT ![type] = Append(@, oid)]

\* Faulty variants of the gate: none at all; none while a cancel is waiting.
GateMissing == FALSE
GateSkippedForCancels == isProcessing /\ queues.cancel = <<>>

\* The gate of getNextBatch (line 90).
Gated == isProcessing

\* The rate-limit test of getNextBatch (line 99).
RateLimited(elapsed, n) == elapsed < RATE_LIMIT_WINDOW_MS /\ n >= RATE_LIMIT

\* Faulty variant: the window never rolls over.
WindowNeverElapsed(elapsed) == FALSE

\* The window has passed (line 106).
WindowElapsed(elapsed) == elapsed >= RATE_LIMIT_WINDOW_MS

\* Faulty variant: what the window already admitted is forgotten.
RemainingCapacityForgetful(n, k) == RATE_LIMIT - k

\* Capacity left in the window after n admitted and k more taken.
RemainingCapacity(n, k) == RATE_LIMIT - n - k

\* Faulty variant: the buys may take the whole capacity.
FifoBuysGreedy(q, capacity) == SpliceHead(q.buy, capacity)

\* The FIFO fallback (lines 169-170): half the capacity to buys, the rest to sells.
FifoBuys(q, capacity) == SpliceHead(q.buy, capacity \div 2)
FifoSells(q, capacity, nBuys) == SpliceHead(q.sell, capacity - nBuys)

\* A getNextBatch call that is not suspended in the estimator.
IdleCall ==
  [pc |-> "idle", cancellations |-> <<>>, rebalances |-> <<>>, prioritized |-> <<>>]

\* The processor between ticks.
IdleProc == [pc |-> "idle", batch |-> <<>>, cursor |-> 0]

\* No batch returned yet. outcome tells how the call ended: at the gate
\* ("gated"), at the rate-limit test ("limited") or with a batch ("admitted").
NoReturn == [batch |-> <<>>, outcome |-> "none"]

\* getNextBatch from its entry to its first suspension or its return: the new
\* QueueManager fields, and either the returned batch or the locals of the
\* suspended call (outcome "await").
getNextBatchRun(liquidityAnalyzer, pat) ==
  LET elapsed == now - lastBatchTime
      here == [queues |-> queues, processing |-> processing,
               lastBatchTime |-> lastBatchTime,
               ordersInCurrentBatch |-> ordersInCurrentBatch,
               isProcessing |-> isProcessing,
               outcome |-> "admitted",
               batch |-> <<>>, prioritized |-> <<>>,
               cancellations |-> <<>>, rebalances |-> <<>>]
  IN
  IF Gated THEN [here EXCEPT !.outcome = "gated"]
  ELSE IF RateLimited(elapsed, ordersInCurrentBatch)
  THEN [here EXCEPT !.outcome = "limited"]
  ELSE
    LET t0 == IF WindowElapsed(elapsed) THEN now ELSE lastBatchTime
        n0 == IF WindowElapsed(elapsed) THEN 0 ELSE ordersInCurrentBatch
        cancellations == SpliceHead(queues.cancel, RemainingCapacity(n0, 0))
        q1 == [queues EXCEPT !.cancel = SpliceRest(@, RemainingCapacity(n0, 0))]
        p1 == [processing EXCEPT !.cancel = @ \o cancellations]
        remainingCapacity == RemainingCapacity(n0, Len(cancellations))
        rebalances == SpliceHead(q1.rebalance, remainingCapacity)
        q2 == [q1 EXCEPT !.rebalance = SpliceRest(@, remainingCapacity)]
        p2 == [p1 EXCEPT !.rebalance = @ \o rebalances]
        remainingAfterRebalances == remainingCapacity - Len(rebalances)
        buys == FifoBuys(q2, remainingAfterRebalances)
        sells == FifoSells(q2, remainingAfterRebalances, Len(buys))
        base == [here EXCEPT !.lastBatchTime = t0,
                             !.cancellations = cancellations]
    IN
    IF remainingCapacity <= 0
    THEN [base EXCEPT !.queues = q1, !.processing = p1,
                      !.ordersInCurrentBatch = n0 + Len(cancellations),
                      !.isProcessing = TRUE,
                      !.batch = cancellations]
    ELSE IF remainingAfterRebalances <= 0
    THEN [base EXCEPT !.queues = q2, !.processing = p2,
                      !.rebalances = rebalances,
                      !.ordersInCurrentBatch =
                          n0 + Len(cancellations) + Len(rebalances),
                      !.isProcessing = TRUE,
                      !.batch = cancellations \o rebalances]
    ELSE IF liquidityAnalyzer
    THEN [base EXCEPT !.outcome = "await",
                      !.queues = q2, !.processing = p2,
                      !.rebalances = rebalances,
                      !.ordersInCurrentBatch = n0,
                      !.prioritized =
                          prioritizeOrders(q2.buy \o q2.sell, pat,
                                           remainingAfterRebalances)]
    ELSE [base EXCEPT !.queues = [q2 EXCEPT !.buy = SpliceRest(@, Len(buys)),
                                            !.sell = SpliceRest(@, Len(sells))],
                      !.processing = [p2 EXCEPT !.buy = @ \o buys,
                                                !.sell = @ \o sells],
                      !.rebalances = rebalances,
                      !.ordersInCurrentBatch =
                          n0 + Len(cancellations) + Len(rebalances)
                             + Len(buys) + Len(sells),
                      !.isProcessing = TRUE,
                      !.batch = cancellations \o rebalances \o buys \o sells]

\* Faulty variant of the turn: the order is pushed on the processing list
\* whether it is still found in its queue or not.
MoveOneUnchecked(oid, st) ==
  LET type == OrderType(oid)
      index == FindIndexById(st.queues[type], OrderId(oid))
  IN [queues |-> IF index # 0 THEN [st.queues EXCEPT ![type] = RemoveAt(@, index)]
                 ELSE st.queues,
      processing |-> [st.processing EXCEPT ![type] = Append(@, oid)]]

\* One turn of the loop of getNextBatch over the prioritized orders (lines
\* 154-160): an order still found in its queue by id moves to the processing
\* list. st holds the queues and the processing lists.
MoveOne(oid, st) ==
  LET type == OrderType(oid)
      index == FindIndexById(st.queues[type], OrderId(oid))
  IN IF index # 0
     THEN [queues |-> [st.queues EXCEPT ![type] = RemoveAt(@, index)],
           processing |-> [st.processing EXCEPT ![type] = Append(@, oid)]]
     ELSE st

\* The loop itself, over prio[lo..hi] in order: the turns of the first half,
\* then, from the state they leave, the turns of the second half.
RECURSIVE MovePrioritized(_, _, _, _)
MovePrioritized(prio, lo, hi, st) ==
  IF lo > hi THEN st
  ELSE IF lo = hi THEN MoveOne(prio[lo], st)
  ELSE CHOOSE r \in {MovePrioritized(prio, (lo + hi) \div 2 + 1, hi, half) :
                       half \in {MovePrioritized(prio, lo, (lo + hi) \div 2, st)}} : TRUE

\* Faulty variant: the batch is assembled back to front.
BatchBackToFront(cancellations, rebalances, prioritized) ==
  prioritized \o rebalances \o cancellations

\* What getNextBatch counts and returns after the estimator answered (lines
\* 151, 178-180): every prioritized order, found in its queue or not.
BatchAfterPrioritize(cancellations, rebalances, prioritized) ==
  cancellations \o rebalances \o prioritized

\* Faulty variant of the turn: the order joins the history and stays on its
\* processing list.
CompleteOneCopies(oid, st) ==
  LET type == OrderType(oid)
      index == FindIndexById(st.processing[type], OrderId(oid))
  IN IF index # 0
     THEN [st EXCEPT !.history = Append(@, oid)]
     ELSE st

\* One turn of the loop of completeBatch (lines 193-199): an order found in
\* its processing list by id leaves it and joins the history.
CompleteOne(oid, st) ==
  LET type == OrderType(oid)
      index == FindIndexById(st.processing[type], OrderId(oid))
  IN IF index # 0
     THEN [processing |-> [st.processing EXCEPT ![type] = RemoveAt(@, index)],
           history |-> Append(st.history, oid)]
     ELSE st

\* The loop itself, over list[lo..hi] in order: the turns of the first half,
\* then, from the state they leave, the turns of the second half.
RECURSIVE CompleteLoop(_, _, _, _)
CompleteLoop(list, lo, hi, st) ==
  IF lo > hi THEN st
  ELSE IF lo = hi THEN CompleteOne(list[lo], st)
  ELSE CHOOSE r \in {CompleteLoop(list, (lo + hi) \div 2 + 1, hi, half) :
                       half \in {CompleteLoop(list, lo, (lo + hi) \div 2, st)}} : TRUE

\* completeBatch ends by clearing the in-flight flag (line 201).
FlagAfterComplete(list) == FALSE

(***************************************************************************)
(* Asset and Index models, and the RebalanceManager's runs on one basket.  *)
(***************************************************************************)
\* new Asset(id, quantity, initialPrice, currentPrice)
Asset(id, quantity, initialPrice, currentPrice) ==
  [id |-> id, quantity |-> quantity, initialPrice |-> initialPrice,
   currentPrice |-> currentPrice]

\* The basket of the tests: A(1 at 10), B(2 at 5), C(5 at 2), worth BasketPrice.
SampleAssets == <<Asset("A", 1, 10, 10), Asset("B", 2, 5, 5), Asset("C", 5, 2, 2)>>

\* Concurrent executeRebalance runs on the basket (two rebalance instructions
\* of one batch).
MaxRuns == 2
Runs == 1..MaxRuns

\* A run before createRebalancePlan: no plan, nothing sent to the venue.
IdleRun == [pc |-> "idle", newAssets |-> <<>>, assetChanges |-> <<>>, log |-> <<>>]

\* No analyzeOrderLiquidity call made yet.
NoEstimate == [called |-> FALSE]

\* The venue calls that may be pending at once, and no timer set for a caller.
VenueCallers == {1, 2}
NoTimer == -1

\* new BinanceAdapter(): no request counted, the window starting now, nobody
\* suspended.  served counts the requests let through since the window that
\* starts at lastRequestTime began.
IdleVenue ==
  [requestCount |-> 0, lastRequestTime |-> 0, clock |-> 0, served |-> 0,
   wake |-> [c \in VenueCallers |-> NoTimer]]

(***************************************************************************)
(* Initial state: new QueueManager(), one basket, no position.             *)
(***************************************************************************)
Init ==
  /\ orders = <<>>
  /\ life = [oid \in {} |-> FreshLife]
  /\ queues = [k \in Kinds |-> <<>>]
  /\ processing = [k \in Kinds |-> <<>>]
  /\ executionHistory = <<>>
  /\ now = 0
  /\ lastBatchTime = 0
  /\ ordersInCurrentBatch = 0
  /\ isProcessing = FALSE
  /\ indices = [i \in IndexIds |-> BasketPrice]
  /\ positions = [p \in {} |-> Null]
  /\ call = [c \in Callers |-> IdleCall]
  /\ ret = [c \in Callers |-> NoReturn]
  /\ nCalls = 0
  /\ proc = IdleProc
  /\ rebal = [assets |-> SampleAssets, run |-> [r \in Runs |-> IdleRun], history |-> 0]
  /\ est = NoEstimate
  /\ venue = IdleVenue

\* No getNextBatch call is suspended in the estimator.
Quiescent == \A c \in Callers : call[c].pc = "idle"

(***************************************************************************)
(* The QueueManager's methods, called by a client.                         *)
(***************************************************************************)
\* A burst of n queueOrder calls of one kind, each with a new Order whose
\* position id is its own (position${i} in the tests).
BurstOrders(first, n, type, limit) ==
  IF type \in {"buy", "sell"}
  THEN Submission(first, n, type, Null, "idx", 10, limit)
  ELSE IF type = "cancel" THEN Submission(first, n, type, Null, NoIndex, Null, Null)
  ELSE Submission(first, n, type, Null, "idx", Null, Null)

QueueOrders(type, n, limit) ==
  /\ Quiescent
  /\ Len(orders) < MaxBursts
  /\ LET first == OidStride * (Len(orders) + 1)
     IN /\ orders' = Append(orders, BurstOrders(first, n, type, limit))
        /\ queues' = [queues EXCEPT ![type] = @ \o [i \in 1..n |-> first + i]]
  /\ UNCHANGED <<venue, rebal, est, life, processing, executionHistory, lastBatchTime,
                 ordersInCurrentBatch, isProcessing, now, indices, positions,
                 call, ret, nCalls, proc>>

\* Time passes.
Advance ==
  /\ Quiescent
  /\ now < MaxTime
  /\ now' = now + ClockStep
  /\ UNCHANGED <<venue, rebal, est, orders, life, queues, processing, executionHistory, lastBatchTime,
                 ordersInCurrentBatch, isProcessing, indices, positions, call,
                 ret, nCalls, proc>>

\* Client c calls getNextBatch: the call runs to its return or to its await
\* of prioritizeOrders.
CallGetNextBatch(c, liquidityAnalyzer, pat) ==
  /\ call[c].pc = "idle"
  /\ nCalls < MaxCalls
  /\ nCalls' = nCalls + 1
  /\ \E r \in {getNextBatchRun(liquidityAnalyzer, pat)} :
        /\ queues' = r.queues
        /\ processing' = r.processing
        /\ lastBatchTime' = r.lastBatchTime
        /\ ordersInCurrentBatch' = r.ordersInCurrentBatch
        /\ isProcessing' = r.isProcessing
        /\ IF r.outcome = "await"
           THEN /\ call' = [call EXCEPT ![c] =
                              [pc |-> "prioritize",
                               cancellations |-> r.cancellations,
                               rebalances |-> r.rebalances,
                               prioritized |-> r.prioritized]]
                /\ ret' = ret
           ELSE /\ call' = call
                /\ ret' = [ret EXCEPT ![c] = [batch |-> r.batch,
                                               outcome |-> r.outcome]]
  /\ UNCHANGED <<venue, rebal, est, orders, life, executionHistory, now, indices, positions, proc>>

\* The estimator answered: the rest of getNextBatch (lines 149-184).
ResumeBody(c) ==
  /\ call[c].pc = "prioritize"
  /\ LET k == call[c]
         batch == BatchAfterPrioritize(k.cancellations, k.rebalances, k.prioritized)
     IN \E moved \in {MovePrioritized(k.prioritized, 1, Len(k.prioritized),
                                      [queues |-> queues, processing |-> processing])} :
        /\ queues' = moved.queues
        /\ processing' = moved.processing
        /\ ordersInCurrentBatch' = ordersInCurrentBatch + Len(batch)
        /\ isProcessing' = TRUE
        /\ ret' = [ret EXCEPT ![c] = [batch |-> batch, outcome |-> "admitted"]]
  /\ call' = [call EXCEPT ![c] = IdleCall]
  /\ UNCHANGED <<venue, rebal, est, orders, executionHistory, lastBatchTime, now, indices,
                 positions, nCalls>>

\* ... for a client that called the QueueManager itself.
ResumeGetNextBatch(c) ==
  /\ ResumeBody(c)
  /\ UNCHANGED <<venue, rebal, est, life, proc>>

\* The single client of Spec calls getNextBatch, with the estimator or without.
GetNextBatch(liquidityAnalyzer, pat) ==
  /\ Quiescent
  /\ CallGetNextBatch(1, liquidityAnalyzer, pat)

\* ... without an estimator no draw is made.
NoDraws == [even |-> 50, odd |-> 50, throws |-> 0]

\* completeBatch(list)
CompleteBatch(list) ==
  /\ Quiescent
  /\ \E done \in {CompleteLoop(list, 1, Len(list),
                                  [processing |-> processing,
                                   history |-> executionHistory])} :
        /\ processing' = done.processing
        /\ executionHistory' = done.history
  /\ isProcessing' = FlagAfterComplete(list)
  /\ UNCHANGED <<venue, rebal, est, orders, life, queues, lastBatchTime, ordersInCurrentBatch, now,
                 indices, positions, call, ret, nCalls, proc>>

\* clear()
Clear ==
  /\ Quiescent
  /\ queues' = [k \in Kinds |-> <<>>]
  /\ processing' = [k \in Kinds |-> <<>>]
  /\ executionHistory' = <<>>
  /\ lastBatchTime' = now
  /\ ordersInCurrentBatch' = 0
  /\ isProcessing' = FALSE
  /\ UNCHANGED <<venue, rebal, est, orders, life, now, indices, positions, call, ret, nCalls, proc>>

\* The lists a client passes to completeBatch: none, or a batch it was given.
CompletionLists == {<<>>} \cup {ret[c].batch : c \in Callers}

Next ==
  \/ \E type \in Kinds, n \in BurstSizes, limit \in BurstLimits : QueueOrders(type, n, limit)
  \/ Advance
  \/ \E pat \in DrawPatterns : GetNextBatch(TRUE, pat)
  \/ GetNextBatch(FALSE, NoDraws)
  \/ ResumeGetNextBatch(1)
  \/ \E list \in CompletionLists : CompleteBatch(list)
  \/ Clear

Spec == Init /\ [][Next]_vars


(***************************************************************************)
(* Properties of the QueueManager under Spec.                              *)
(***************************************************************************)
\* Some getNextBatch call of the single client makes this step.
GetNextBatchStep ==
  \/ \E pat \in DrawPatterns : GetNextBatch(TRUE, pat)
  \/ GetNextBatch(FALSE, NoDraws)

\* Client 1's getNextBatch call returns in this step.
Returns == ret'[1] # ret[1] \/ ResumeGetNextBatch(1)

\* Place of a kind in a batch: cancels, then rebalances, then buys and sells.
KindRank(oid) ==
  CASE OrderType(oid) = "cancel" -> 1
    [] OrderType(oid) = "rebalance" -> 2
    [] OTHER -> 3

\* The queued buys are n, all triggerable, and nothing else is queued.
OnlyTriggerableBuysQueued(n) ==
  /\ Len(queues.buy) = n
  /\ \A i \in 1..n : Order(queues.buy[i]).indexPrice >= getCurrentPrice("idx")
  /\ queues.sell = <<>> /\ queues.cancel = <<>> /\ queues.rebalance = <<>>

NothingInProcessing == \A k \in Kinds : processing[k] = <<>>

C2_BatchOrder ==
  [][Returns =>
       LET batch == ret'[1].batch
       IN /\ \A i \in 1..(Len(batch) - 1) : KindRank(batch[i]) <= KindRank(batch[i + 1])
          /\ (\E i \in 1..Len(batch) : KindRank(batch[i]) = 2) => queues'.cancel = <<>>
          /\ (\E i \in 1..Len(batch) : KindRank(batch[i]) = 3)
               => queues'.cancel = <<>> /\ queues'.rebalance = <<>>]_vars

\* A batch of two kinds was returned while instructions of the later kind
\* stayed queued.
C2_Witness ==
  /\ ret[1].outcome = "admitted"
  /\ \E i \in 1..(Len(ret[1].batch) - 1) :
       KindRank(ret[1].batch[i]) < KindRank(ret[1].batch[i + 1])
  /\ \E k \in Kinds : queues[k] # <<>>

\* C3: a getNextBatch call made while the in-flight flag is set returns an
\* empty list and changes none of the QueueManager's fields.
C3_GatedCall ==
  [][isProcessing /\ GetNextBatchStep
       => ret'[1].batch = <<>> /\ UNCHANGED qmVars /\ UNCHANGED call]_vars

\* A call was turned away at the gate while a batch was in flight and more
\* instructions were queued.
C3_Witness ==
  /\ ret[1].outcome = "gated"
  /\ isProcessing
  /\ \E k \in Kinds : processing[k] # <<>>
  /\ \E k \in Kinds : queues[k] # <<>>

\* C4 as stated: while the flag is set no call returns a non-empty batch, and
\* only completeBatch clears the flag.
C4_OnlyCompleteBatchClears ==
  [][/\ isProcessing /\ Returns => ret'[1].batch = <<>>
     /\ isProcessing /\ ~isProcessing' => \E list \in CompletionLists : CompleteBatch(list)]_vars

\* C4, amended: while the flag is set no call returns a non-empty batch, and
\* only completeBatch and clear() clear the flag.
C4_OneOutstanding ==
  [][/\ isProcessing /\ Returns => ret'[1].batch = <<>>
     /\ isProcessing /\ ~isProcessing' =>
          \/ \E list \in CompletionLists : CompleteBatch(list)
          \/ Clear]_vars

\* A second batch is in flight after the first was completed.
C4_Witness ==
  /\ isProcessing
  /\ ret[1].batch # <<>>
  /\ executionHistory # <<>>
  /\ Range(ret[1].batch) \cap Range(executionHistory) = {}

\* C6: with 150 triggerable buys queued and a fresh window, a tick admits
\* exactly 100 and leaves 50 queued; with those 100 completed and the window
\* rolled over, a tick admits the remaining 50.
C6_HundredThenFifty ==
  [][/\ ResumeGetNextBatch(1) /\ OnlyTriggerableBuysQueued(150)
          /\ executionHistory = <<>> /\ NothingInProcessing
          /\ ordersInCurrentBatch = 0
        => Len(ret'[1].batch) = 100 /\ Len(queues'.buy) = 50
     /\ ResumeGetNextBatch(1) /\ OnlyTriggerableBuysQueued(50)
          /\ Len(executionHistory) = 100 /\ NothingInProcessing
          /\ ordersInCurrentBatch = 0 /\ now - lastBatchTime < RATE_LIMIT_WINDOW_MS
        => Len(ret'[1].batch) = 50 /\ queues'.buy = <<>>]_vars

\* The second tick has admitted the remaining 50 after the rollover.
C6_Witness ==
  /\ Len(executionHistory) = 100
  /\ Len(ret[1].batch) = 50
  /\ Len(processing.buy) = 50
  /\ queues.buy = <<>>
  /\ ordersInCurrentBatch = 50
  /\ lastBatchTime = RATE_LIMIT_WINDOW_MS

\* The first batch of 100 out of 200 triggerable buys has been completed, and
\* the window that admitted it is still the current one.
C7_FirstBatchCompleted ==
  /\ ~isProcessing
  /\ Len(executionHistory) = 100
  /\ NothingInProcessing
  /\ OnlyTriggerableBuysQueued(100)
  /\ ordersInCurrentBatch = RATE_LIMIT

C8_EmptyCompleteIsNoOp == [][CompleteBatch(<<>>) => UNCHANGED qmVars]_vars

(***************************************************************************)
(* SpecOverlap: two clients call getNextBatch with the estimator; a call   *)
(* may start while the other is suspended at its await (line 147).         *)
(***************************************************************************)
NextOverlap ==
  \/ \E type \in Kinds, n \in BurstSizes, limit \in BurstLimits : QueueOrders(type, n, limit)
  \/ \E c \in Callers, pat \in DrawPatterns : CallGetNextBatch(c, TRUE, pat)
  \/ \E c \in Callers : ResumeGetNextBatch(c)
  \/ \E list \in CompletionLists : CompleteBatch(list)

SpecOverlap == Init /\ [][NextOverlap]_vars

\* The other client.
Other(c) == CHOOSE d \in Callers : d # c

\* C5: when a call returns and finds the flag already set by a call that
\* overlapped it, at most one of the two returned a non-empty batch, no
\* instruction is in both batches, and the window counter stays within
\* RATE_LIMIT.
C5_AtomicGate ==
  [][\A c \in Callers :
       ResumeGetNextBatch(c) /\ isProcessing /\ ret[Other(c)].outcome = "admitted"
         => /\ ret[Other(c)].batch = <<>> \/ ret'[c].batch = <<>>
            /\ Range(ret[Other(c)].batch) \cap Range(ret'[c].batch) = {}
            /\ ordersInCurrentBatch' <= RATE_LIMIT]_vars

(***************************************************************************)
(* The OrderProcessor. Code between two suspensions runs without           *)
(* interruption: a tick runs from its start to its await of the estimator, *)
(* and from the estimator's answer through getNextBatch's return and the   *)
(* start of every instruction of the batch; the liquidity analysis, the    *)
(* venue and the rebalance manager answer later, in any order.             *)
(***************************************************************************)
\* Position ids the clients use.
PositionIds == {1, 2}
\* Limit prices of the instructions the routes are sent: off and at the trigger.
RouteLimits(type) == IF type = "buy" THEN {25, 30} ELSE {30, 35}
\* Basket ids a client's own Order may name: the basket, and an unknown one.
ClientIndexIds == {"idx", "gone"}
\* fillablePercent reported by analyzeOrderLiquidity.
AnalysisLevels == {0, 50, 100}
\* The share of the planned quantity the venue fills, in percent, and the
\* executionResult.loss it reports.
ExecutedLevels == {5, 90, 100}
ExecutionLoss == 2
\* Quantities of a plan are kept in hundredths of a basket unit.
PlanUnit == 100
\* cancelResult.fillPercentage and cancelResult.loss reported by cancelOrder.
CancelFill == 10
CancelLoss == 1
\* rebalanceResult.totalLoss.
RebalanceLoss == 3

\* queueManager.getOrderByPositionId(p): kind by kind in the order of Types,
\* the queue and then the processing list; Null when none is found.
RECURSIVE LookupFrom(_, _, _, _)
LookupFrom(q, pr, p, k) ==
  IF k > Len(Types) THEN Null
  ELSE LET type == Types[k]
           i == FindIndexByPosition(q[type], p)
           j == FindIndexByPosition(pr[type], p)
       IN IF i # 0 THEN q[type][i]
          ELSE IF j # 0 THEN pr[type][j]
          ELSE LookupFrom(q, pr, p, k + 1)

getOrderByPositionId(q, pr, p) == LookupFrom(q, pr, p, 1)

\* queueManager.removeOrderByPositionId(p): the first queued order of that
\* position, kind by kind, leaves its queue.
RECURSIVE RemoveFrom(_, _, _)
RemoveFrom(q, p, k) ==
  IF k > Len(Types) THEN q
  ELSE LET type == Types[k]
           i == FindIndexByPosition(q[type], p)
       IN IF i # 0 THEN [q EXCEPT ![type] = RemoveAt(@, i)]
          ELSE RemoveFrom(q, p, k + 1)

removeOrderByPositionId(q, p) == RemoveFrom(q, p, 1)

\* The order is in some queue.
InQueue(q, oid) == \E i \in 1..Len(q[OrderType(oid)]) : q[OrderType(oid)][i] = oid

\* Faulty variant of the buy trigger test: a limit equal to the price does not
\* trigger.
BuyNotTriggerableAtLimit(indexPrice, currentPrice) == indexPrice <= currentPrice

\* The trigger tests of processBuyOrder (line 140) and processSellOrder (line 220).
BuyNotTriggerable(indexPrice, currentPrice) == indexPrice < currentPrice
SellNotTriggerable(indexPrice, currentPrice) == indexPrice > currentPrice

\* processBuyOrder / processSellOrder up to the await of the liquidity
\* analysis. l is the order's state after updateStatus('processing').
processTradeStart(o, l) ==
  IF o.indexId \notin DOMAIN indices
  THEN updateStatus(l, "failed", Undefined, Undefined, TRUE)
  ELSE IF \/ o.type = "buy" /\ BuyNotTriggerable(o.indexPrice, getCurrentPrice(o.indexId))
          \/ o.type = "sell" /\ SellNotTriggerable(o.indexPrice, getCurrentPrice(o.indexId))
  THEN updateStatus(l, "pending", Undefined, Undefined, TRUE)
  ELSE [l EXCEPT !.stage = "analyze", !.nAnalyze = @ + 1]

\* processRebalanceOrder up to the await of createRebalancePlan.
processRebalanceStart(o, l) ==
  IF o.indexId \notin DOMAIN indices
  THEN updateStatus(l, "failed", Undefined, Undefined, TRUE)
  ELSE [l EXCEPT !.stage = "plan", !.nPlan = @ + 1]

\* processCancelOrder up to its return or its await of the venue's cancel.
\* lf holds the orders' states, the cancel's own already 'processing'.
processCancelStart(oid, o, lf, q, pr) ==
  LET l == Get(lf, oid)
      orderToCancel == getOrderByPositionId(q, pr, o.positionId)
      t == Get(lf, orderToCancel)
      same == [life |-> lf, queues |-> q]
  IN IF orderToCancel = Null
     THEN [same EXCEPT !.life = Put(lf, oid, updateStatus(l, "failed", Undefined, Undefined, TRUE))]
     ELSE IF isCompleteStatus(t.status)
     THEN [same EXCEPT !.life = Put(lf, oid, updateStatus(l, "failed", Undefined, Undefined, TRUE))]
     ELSE IF t.status = "pending"
     THEN [life |-> Put(Put(lf, orderToCancel,
                            updateStatus(t, "canceled", Undefined, Undefined, TRUE)),
                        oid,
                        updateStatus([l EXCEPT !.target = orderToCancel,
                                               !.queued = InQueue(q, orderToCancel)],
                                     "filled", Undefined, Undefined, TRUE)),
           queues |-> removeOrderByPositionId(q, o.positionId)]
     ELSE IF t.status = "processing"
     THEN IF Order(orderToCancel).indexId \notin DOMAIN indices
          THEN [same EXCEPT !.life = Put(lf, oid, updateStatus(l, "failed", Undefined, Undefined, TRUE))]
          ELSE [same EXCEPT !.life = Put(lf, oid, [l EXCEPT !.stage = "venueCancel",
                                                            !.target = orderToCancel,
                                                            !.nCancel = @ + 1])]
     ELSE same

\* processOrder(order) from its entry to its first suspension or its return,
\* a throw caught at line 118 included: the orders' states and the queues.
\* oid is the identity of the order and o its fields.
processOrderStart(oid, o, lf, q, pr) ==
  LET l == updateStatus(Get(lf, oid), "processing", Undefined, Undefined, FALSE)
  IN IF o.type \in {"buy", "sell"}
     THEN [life |-> Put(lf, oid, processTradeStart(o, l)), queues |-> q]
     ELSE IF o.type = "rebalance"
     THEN [life |-> Put(lf, oid, processRebalanceStart(o, l)), queues |-> q]
     ELSE processCancelStart(oid, o, Put(lf, oid, l), q, pr)

\* analyzeOrderLiquidity's assetOrders: every asset's target quantity scaled
\* to the overall fillable percentage; their total, the basket taken as one
\* asset traded unit for unit.
plannedQuantity(quantity, fillablePercent) == (quantity * PlanUnit * fillablePercent) \div 100

\* binanceAdapter.executeOrder(side, assetOrders, positionId): the result's
\* totals, and filled = overallFillRate * 100.
executeOrder(totalTargetQuantity, executionRate) ==
  LET totalFilledQuantity == (totalTargetQuantity * executionRate) \div 100
  IN [totalTargetQuantity |-> totalTargetQuantity,
      totalFilledQuantity |-> totalFilledQuantity,
      filled |-> (totalFilledQuantity * 100) \div totalTargetQuantity,
      loss |-> ExecutionLoss]

\* fillPercentage = executionResult.filled / order.quantity * 100 ...
FillPercentage(filled, quantity) == (filled * 100) \div quantity
\* ... and the test fillPercentage >= 99.5.
CountsAsFilled(filled, quantity) == filled * 200 >= 199 * quantity

\* No code of the processor is in the middle of a run: no tick is between its
\* start and its await of the batch's instructions, and a tick that awaits
\* them still has one suspended (when the last one returns, Promise.all
\* resolves and completeBatch follows at once).
AtRest ==
  /\ Quiescent
  /\ \/ proc.pc = "idle"
     \/ /\ proc.pc = "awaiting"
        /\ \E i \in 1..Len(proc.batch) : Life(proc.batch[i]).stage # "none"

\* The identity of the next Order created.
NextOid == OidStride * (Len(orders) + 1) + 1

\* new Order(...) alone.
Create(type, positionId, indexId, quantity, indexPrice) ==
  orders' = Append(orders, Submission(NextOid - 1, 1, type, positionId, indexId,
                                      quantity, indexPrice))

\* POST /api/orders/buy: refused when the position id is already registered.
SubmitBuy(positionId, indexId, quantity, indexPrice) ==
  /\ AtRest
  /\ Len(orders) < MaxProcOrders
  /\ indexId \in DOMAIN indices
  /\ positionId \notin DOMAIN positions
  /\ Create("buy", positionId, indexId, quantity, indexPrice)
  /\ positions' = Put(positions, positionId, NextOid)
  /\ queues' = queueOrder(queues, NextOid, "buy")
  /\ UNCHANGED <<venue, rebal, est, life, processing, executionHistory, lastBatchTime,
                 ordersInCurrentBatch, isProcessing, now, indices, call, ret,
                 nCalls, proc>>

\* POST /api/orders/sell: the position id is registered anew.
SubmitSell(positionId, indexId, quantity, indexPrice) ==
  /\ AtRest
  /\ Len(orders) < MaxProcOrders
  /\ indexId \in DOMAIN indices
  /\ Create("sell", positionId, indexId, quantity, indexPrice)
  /\ positions' = Put(positions, positionId, NextOid)
  /\ queues' = queueOrder(queues, NextOid, "sell")
  /\ UNCHANGED <<venue, rebal, est, life, processing, executionHistory, lastBatchTime,
                 ordersInCurrentBatch, isProcessing, now, indices, call, ret,
                 nCalls, proc>>

\* POST /api/orders/cancel: refused when the position id is not registered.
SubmitCancel(positionId) ==
  /\ AtRest
  /\ Len(orders) < MaxProcOrders
  /\ positionId \in DOMAIN positions
  /\ Create("cancel", positionId, NoIndex, Null, Null)
  /\ queues' = queueOrder(queues, NextOid, "cancel")
  /\ UNCHANGED <<venue, rebal, est, life, processing, executionHistory, lastBatchTime,
                 ordersInCurrentBatch, isProcessing, now, indices, positions,
                 call, ret, nCalls, proc>>

\* POST /api/orders/rebalance
SubmitRebalance(indexId) ==
  /\ AtRest
  /\ Len(orders) < MaxProcOrders
  /\ indexId \in DOMAIN indices
  /\ Create("rebalance", Null, indexId, Null, Null)
  /\ queues' = queueOrder(queues, NextOid, "rebalance")
  /\ UNCHANGED <<venue, rebal, est, life, processing, executionHistory, lastBatchTime,
                 ordersInCurrentBatch, isProcessing, now, indices, positions,
                 call, ret, nCalls, proc>>

\* DELETE /api/indices/:id
DeleteIndex(indexId) ==
  /\ AtRest
  /\ indexId \in DOMAIN indices
  /\ indices' = [i \in DOMAIN indices \ {indexId} |-> indices[i]]
  /\ UNCHANGED <<venue, rebal, est, orders, life, queues, processing, executionHistory,
                 lastBatchTime, ordersInCurrentBatch, isProcessing, now,
                 positions, call, ret, nCalls, proc>>

\* A client creates an Order and queues it: queueManager.queueOrder(order).
ClientQueue(type, positionId, indexPrice) ==
  /\ Len(orders) < MaxClientOrders
  /\ IF type \in {"buy", "sell"}
     THEN Create(type, positionId, "idx", 10, indexPrice)
     ELSE IF type = "cancel" THEN Create(type, positionId, NoIndex, Null, Null)
     ELSE Create(type, Null, "idx", Null, Null)
  /\ queues' = IF queueOrderOutcome(type) = "true"
               THEN queueOrder(queues, NextOid, type)
               ELSE queues
  /\ UNCHANGED <<venue, rebal, est, life, processing, executionHistory, lastBatchTime,
                 ordersInCurrentBatch, isProcessing, now, indices, positions,
                 call, ret, nCalls, proc>>

\* A client creates an Order, marks it processing and pushes it on its
\* processing list (the unit tests' way to a cancel of a processing order).
ClientPushProcessing(type, positionId, indexId, indexPrice) ==
  /\ Len(orders) < MaxClientOrders
  /\ Create(type, positionId, indexId, 10, indexPrice)
  /\ life' = Put(life, NextOid,
                 updateStatus(FreshLife, "processing", Undefined, Undefined, FALSE))
  /\ processing' = [processing EXCEPT ![type] = Append(@, NextOid)]
  /\ UNCHANGED <<venue, rebal, est, queues, executionHistory, lastBatchTime,
                 ordersInCurrentBatch, isProcessing, now, indices, positions,
                 call, ret, nCalls, proc>>

\* A client creates an Order and calls processOrder on it, without queueing
\* it: the call runs to its first suspension or its return.
ProcessOrder(type, positionId, indexId, indexPrice) ==
  /\ Len(orders) < MaxClientOrders
  /\ LET order == IF type \in {"buy", "sell"}
                  THEN NewOrder(NextOid, type, positionId, indexId, 10, indexPrice)
                  ELSE IF type = "cancel"
                  THEN NewOrder(NextOid, type, positionId, NoIndex, Null, Null)
                  ELSE NewOrder(NextOid, type, NextOid, indexId, Null, Null)
     IN /\ Create(type, order.positionId, order.indexId, order.quantity, order.indexPrice)
        /\ \E r \in {processOrderStart(NextOid, order, life, queues, processing)} :
              /\ life' = r.life
              /\ queues' = r.queues
  /\ UNCHANGED <<venue, rebal, est, processing, executionHistory, lastBatchTime,
                 ordersInCurrentBatch, isProcessing, now, indices, positions,
                 call, ret, nCalls, proc>>

\* The timer fires: processBatch up to the await inside getNextBatch. It
\* returns at once while the in-flight flag is set.
Tick(pat) ==
  /\ AtRest
  /\ IF isProcessing
     THEN UNCHANGED vars
     ELSE CallGetNextBatch(1, TRUE, pat)

\* The estimator answered: getNextBatch returns the batch; processBatch
\* returns on an empty one and goes on to start its instructions otherwise.
TickAdmit ==
  /\ proc.pc = "idle"
  /\ ResumeBody(1)
  /\ proc' = IF ret'[1].batch = <<>> THEN IdleProc
             ELSE [pc |-> "starting", batch |-> ret'[1].batch, cursor |-> 1]
  /\ life' = life

\* batch.map(order => this.processOrder(order)): the next instruction of the
\* batch runs to its first suspension or its return.
StartOrder ==
  /\ proc.pc = "starting"
  /\ \E r \in {processOrderStart(proc.batch[proc.cursor], Order(proc.batch[proc.cursor]),
                                  life, queues, processing)} :
        /\ life' = r.life
        /\ queues' = r.queues
  /\ proc' = IF proc.cursor = Len(proc.batch)
             THEN [proc EXCEPT !.pc = "awaiting"]
             ELSE [proc EXCEPT !.cursor = @ + 1]
  /\ UNCHANGED <<venue, rebal, est, orders, processing, executionHistory, lastBatchTime,
                 ordersInCurrentBatch, isProcessing, now, indices, positions,
                 call, ret, nCalls>>

\* The orders suspended at a given await.
Suspended(stage) == {oid \in DOMAIN life : life[oid].stage = stage}

\* analyzeOrderLiquidity answered: nothing fillable sends the instruction back
\* to pending, else the venue is asked to execute.
AnalyzeReturn(oid, fillablePercent) ==
  /\ AtRest
  /\ oid \in Suspended("analyze")
  /\ LET l == [life[oid] EXCEPT !.stage = "none"]
     IN life' = [life EXCEPT ![oid] =
          IF fillablePercent = 0
          THEN updateStatus(l, "pending", Undefined, Undefined, TRUE)
          ELSE [life[oid] EXCEPT !.stage = "execute", !.nExecute = @ + 1,
                                 !.planned = plannedQuantity(Order(oid).quantity,
                                                             fillablePercent)]]
  /\ UNCHANGED <<venue, rebal, est, orders, queues, processing, executionHistory, lastBatchTime,
                 ordersInCurrentBatch, isProcessing, now, indices, positions,
                 call, ret, nCalls, proc>>

\* executeOrder answered, having filled executionRate percent of the plan (or
\* threw).
ExecuteReturn(oid, ok, executionRate) ==
  /\ AtRest
  /\ oid \in Suspended("execute")
  /\ LET l == [life[oid] EXCEPT !.stage = "none", !.planned = 0]
         quantity == Order(oid).quantity
         executionResult == executeOrder(life[oid].planned, executionRate)
     IN life' = [life EXCEPT ![oid] =
          IF ~ok THEN updateStatus(l, "failed", Undefined, Undefined, TRUE)
          ELSE IF CountsAsFilled(executionResult.filled, quantity)
          THEN updateStatus(l, "filled", 100, executionResult.loss, TRUE)
          ELSE updateStatus(l, "partially_filled",
                            FillPercentage(executionResult.filled, quantity),
                            executionResult.loss, TRUE)]
  /\ UNCHANGED <<venue, rebal, est, orders, queues, processing, executionHistory, lastBatchTime,
                 ordersInCurrentBatch, isProcessing, now, indices, positions,
                 call, ret, nCalls, proc>>

\* Faulty variant of the update of a canceled target: the venue's report is
\* dropped.
venueCanceledKeepsFill(t, fillPercentage, loss) ==
  updateStatus(t, "canceled", Undefined, Undefined, TRUE)

\* orderToCancel.updateStatus('canceled', {fillPercentage, loss, execution})
\* with the venue's cancelResult (lines 348-352).
venueCanceled(t, fillPercentage, loss) ==
  updateStatus(t, "canceled", fillPercentage, loss, TRUE)

\* The venue's cancelOrder answered (or threw).
VenueCancelReturn(oid, ok) ==
  /\ AtRest
  /\ oid \in Suspended("venueCancel")
  /\ LET l == [life[oid] EXCEPT !.stage = "none"]
         orderToCancel == l.target
     IN life' =
          IF ~ok
          THEN [life EXCEPT ![oid] = updateStatus(l, "failed", Undefined, Undefined, TRUE)]
          ELSE [life EXCEPT ![orderToCancel] = venueCanceled(@, CancelFill, CancelLoss),
                            ![oid] = updateStatus(l, "filled", Undefined, Undefined, TRUE)]
  /\ UNCHANGED <<venue, rebal, est, orders, queues, processing, executionHistory, lastBatchTime,
                 ordersInCurrentBatch, isProcessing, now, indices, positions,
                 call, ret, nCalls, proc>>

\* createRebalancePlan answered, and executeRebalance is called with the
\* plan (or it threw).
PlanReturn(oid, ok) ==
  /\ AtRest
  /\ oid \in Suspended("plan")
  /\ life' = [life EXCEPT ![oid] =
       IF ~ok THEN updateStatus([@ EXCEPT !.stage = "none"], "failed",
                                Undefined, Undefined, TRUE)
       ELSE [@ EXCEPT !.stage = "rebalance", !.nRebalance = @ + 1]]
  /\ UNCHANGED <<venue, rebal, est, orders, queues, processing, executionHistory, lastBatchTime,
                 ordersInCurrentBatch, isProcessing, now, indices, positions,
                 call, ret, nCalls, proc>>

\* Faulty variant of the update of a rebalanced instruction: the loss is
\* dropped.
rebalancedWithoutLoss(l, totalLoss) == updateStatus(l, "filled", Undefined, Undefined, TRUE)

\* order.updateStatus('filled', {loss: rebalanceResult.totalLoss, execution})
rebalanced(l, totalLoss) == updateStatus(l, "filled", Undefined, totalLoss, TRUE)

\* executeRebalance answered (or threw).
RebalanceReturn(oid, ok) ==
  /\ AtRest
  /\ oid \in Suspended("rebalance")
  /\ LET l == [life[oid] EXCEPT !.stage = "none"]
     IN life' = [life EXCEPT ![oid] =
          IF ~ok THEN updateStatus(l, "failed", Undefined, Undefined, TRUE)
          ELSE rebalanced(l, RebalanceLoss)]
  /\ UNCHANGED <<venue, rebal, est, orders, queues, processing, executionHistory, lastBatchTime,
                 ordersInCurrentBatch, isProcessing, now, indices, positions,
                 call, ret, nCalls, proc>>

\* Faulty variant: an instruction that failed is missing from the list handed
\* to completeBatch.
processedOrdersWithoutFailed(batch) ==
  SelectSeq(batch, LAMBDA oid : Life(oid).status # "failed")

\* processedOrders = await Promise.all(batch.map(...)): processOrder catches
\* what its instruction throws and returns the instruction, so the list is
\* the batch.
processedOrders(batch) == batch

\* Promise.all resolved: every instruction of the batch has returned, and
\* processBatch calls completeBatch(processedOrders).
Finish ==
  /\ proc.pc = "awaiting"
  /\ Quiescent
  /\ \A i \in 1..Len(proc.batch) : Life(proc.batch[i]).stage = "none"
  /\ \E done \in {CompleteLoop(processedOrders(proc.batch), 1,
                                  Len(processedOrders(proc.batch)),
                                  [processing |-> processing,
                                   history |-> executionHistory])} :
        /\ processing' = done.processing
        /\ executionHistory' = done.history
  /\ isProcessing' = FlagAfterComplete(processedOrders(proc.batch))
  /\ proc' = IdleProc
  /\ UNCHANGED <<venue, rebal, est, orders, life, queues, lastBatchTime, ordersInCurrentBatch, now,
                 indices, positions, call, ret, nCalls>>

NextProc ==
  \/ \E p \in PositionIds, quantity \in Quantities, limit \in RouteLimits("buy") :
       SubmitBuy(p, "idx", quantity, limit)
  \/ \E p \in PositionIds, quantity \in Quantities, limit \in RouteLimits("sell") :
       SubmitSell(p, "idx", quantity, limit)
  \/ \E p \in PositionIds : SubmitCancel(p)
  \/ SubmitRebalance("idx")
  \/ DeleteIndex("idx")
  \/ \E pat \in TickPatterns : Tick(pat)
  \/ TickAdmit
  \/ StartOrder
  \/ \E oid \in DOMAIN life, r \in AnalysisLevels : AnalyzeReturn(oid, r)
  \/ \E oid \in DOMAIN life, ok \in BOOLEAN, r \in ExecutedLevels : ExecuteReturn(oid, ok, r)
  \/ \E oid \in DOMAIN life, ok \in BOOLEAN : PlanReturn(oid, ok)
  \/ \E oid \in DOMAIN life, ok \in BOOLEAN : RebalanceReturn(oid, ok)
  \/ Finish

\* The assembled program: routes, timer, and the answers of the services.
\* Fewer than RATE_LIMIT instructions are ever submitted, so the window never
\* fills, every ungated getNextBatch call reaches the estimator, and the
\* clock is left standing. No cancel of a batch ever finds its target
\* 'processing' with a known basket, so the venue's cancelOrder has nothing
\* to answer here.
SpecProc == Init /\ [][NextProc]_vars

NextDirect ==
  \/ \E type \in ClientKinds, p \in PositionIds, limit \in Limits :
       ClientQueue(type, p, limit)
  \/ \E type \in {"buy", "sell"}, p \in PositionIds, i \in ClientIndexIds, limit \in Limits :
       ClientPushProcessing(type, p, i, limit)
  \/ \E type \in Kinds, p \in PositionIds, i \in ClientIndexIds, limit \in Limits :
       ProcessOrder(type, p, i, limit)
  \/ \E oid \in DOMAIN life, r \in AnalysisLevels : AnalyzeReturn(oid, r)
  \/ \E oid \in DOMAIN life, ok \in BOOLEAN, r \in ExecutedLevels : ExecuteReturn(oid, ok, r)
  \/ \E oid \in DOMAIN life, ok \in BOOLEAN : VenueCancelReturn(oid, ok)
  \/ \E oid \in DOMAIN life, ok \in BOOLEAN : PlanReturn(oid, ok)
  \/ \E oid \in DOMAIN life, ok \in BOOLEAN : RebalanceReturn(oid, ok)

\* A client driving the QueueManager and the OrderProcessor by hand.
SpecDirect == Init /\ [][NextDirect]_vars

(***************************************************************************)
(* Properties of the instruction lifecycle.                                *)
(***************************************************************************)
\* C9: processOrder on a buy with a limit below the basket price, or a sell
\* with a limit above it, returns with the instruction pending, one note in
\* its execution log, and neither a liquidity analysis nor a venue execution
\* issued for it, then or later; a buy with limit >= price and a sell with
\* limit <= price go on to the liquidity analysis.
C9_TriggerCondition ==
  [][/\ \A type \in {"buy", "sell"}, p \in PositionIds, limit \in Limits :
          ProcessOrder(type, p, "idx", limit) =>
            LET l == Get(life', NextOid)
            IN IF \/ type = "buy" /\ limit < getCurrentPrice("idx")
                  \/ type = "sell" /\ limit > getCurrentPrice("idx")
               THEN /\ l.status = "pending" /\ l.notes = 1 /\ l.stage = "none"
                    /\ l.nAnalyze = 0 /\ l.nExecute = 0
               ELSE /\ l.status = "processing" /\ l.notes = 0 /\ l.stage = "analyze"
                    /\ l.nAnalyze = 1
     /\ \A oid \in DOMAIN life :
          LET o == Order(oid)
          IN (\/ o.type = "buy" /\ o.indexId = "idx" /\ o.indexPrice < getCurrentPrice("idx")
              \/ o.type = "sell" /\ o.indexId = "idx" /\ o.indexPrice > getCurrentPrice("idx"))
               => Get(life', oid).nAnalyze = 0 /\ Get(life', oid).nExecute = 0]_vars

\* An untriggered buy and an untriggered sell have both been processed.
C9_Witness ==
  \E b, s \in DOMAIN life :
    /\ Order(b).type = "buy" /\ Order(b).indexPrice < getCurrentPrice("idx")
    /\ Order(s).type = "sell" /\ Order(s).indexPrice > getCurrentPrice("idx")
    /\ Order(b).indexId = "idx" /\ Order(s).indexId = "idx"
    /\ \A oid \in {b, s} :
         /\ life[oid].status = "pending" /\ life[oid].notes = 1
         /\ life[oid].nAnalyze = 0 /\ life[oid].nExecute = 0

\* C10: when the tick starts a cancel whose target is pending in a queue, the
\* target leaves its queue and becomes canceled, the cancel becomes filled and
\* the venue is not called; when the tick has completed the batch, the lookup
\* by that position id finds nothing and the registry reports the position
\* canceled.
C10_CancelPending ==
  [][/\ StartOrder /\ OrderType(proc.batch[proc.cursor]) = "cancel" =>
          LET c == proc.batch[proc.cursor]
              t == getOrderByPositionId(queues, processing, Order(c).positionId)
          IN t # Null /\ InQueue(queues, t) /\ Life(t).status = "pending" =>
               /\ ~InQueue(queues', t)
               /\ Get(life', t).status = "canceled"
               /\ Get(life', c).status = "filled"
               /\ Get(life', c).nCancel = 0 /\ Get(life', c).stage = "none"
     /\ Finish =>
          \A i \in 1..Len(proc.batch) :
            LET c == proc.batch[i]
                p == Order(c).positionId
            IN OrderType(c) = "cancel" /\ Life(c).queued =>
                 /\ getOrderByPositionId(queues', processing', p) = Null
                 /\ p \in DOMAIN positions => Life(positions[p]).status = "canceled"]_vars

\* What a cancel does when processOrder is handed it and the instruction it
\* resolves is 'processing': the venue's cancel is issued once and the cancel
\* waits for it, the target untouched meanwhile.
IssuesVenueCancel(c, t) ==
  /\ Get(life', c).nCancel = 1 /\ Get(life', c).stage = "venueCancel"
  /\ Get(life', c).status = "processing"
  /\ Get(life', t) = Life(t)

\* What the venue's answer to a cancel does: a result is written onto the
\* target, which becomes canceled, and the cancel becomes filled; a throw
\* fails the cancel and leaves the target as it was.
VenueAnswerApplied ==
  \A c \in DOMAIN life :
    LET t == life[c].target
    IN /\ VenueCancelReturn(c, TRUE) =>
            /\ life'[t].status = "canceled"
            /\ life'[t].fillPercentage = CancelFill /\ life'[t].loss = CancelLoss
            /\ life'[c].status = "filled" /\ life'[c].nCancel = 1
       /\ VenueCancelReturn(c, FALSE) =>
            /\ life'[c].status = "failed" /\ life'[c].nCancel = 1
            /\ life'[t].status = life[t].status
            /\ life'[t].fillPercentage = life[t].fillPercentage
            /\ life'[t].loss = life[t].loss

\* C11 as stated: processOrder on a cancel whose target is 'processing' calls
\* the venue's cancel exactly once; the venue's result puts its fill
\* percentage and loss on the target, which becomes canceled, and the cancel
\* becomes filled; a throw of the venue's cancel makes the cancel failed and
\* leaves the target's status, fill percentage and loss unchanged.
C11_CancelProcessing ==
  [][/\ \A p \in PositionIds, i \in ClientIndexIds, limit \in Limits :
          ProcessOrder("cancel", p, i, limit) =>
            LET t == getOrderByPositionId(queues, processing, p)
            IN t # Null /\ Life(t).status = "processing" => IssuesVenueCancel(NextOid, t)
     /\ VenueAnswerApplied]_vars

\* C11 as the code has it: the venue's cancel is called only when the
\* target's basket is registered; when it is not, the cancel becomes failed
\* without a venue call and the target is unchanged.
C11_CancelProcessingKnownBasket ==
  [][/\ \A p \in PositionIds, i \in ClientIndexIds, limit \in Limits :
          ProcessOrder("cancel", p, i, limit) =>
            LET t == getOrderByPositionId(queues, processing, p)
            IN t # Null /\ Life(t).status = "processing" =>
                 IF Order(t).indexId \in DOMAIN indices
                 THEN IssuesVenueCancel(NextOid, t)
                 ELSE /\ Get(life', NextOid).status = "failed"
                      /\ Get(life', NextOid).nCancel = 0
                      /\ Get(life', NextOid).stage = "none"
                      /\ Get(life', t) = Life(t)
     /\ VenueAnswerApplied]_vars

\* A cancel was answered by the venue: it is filled after one venue call and
\* its target is canceled with the venue's fill percentage and loss.
C11_Witness ==
  \E c \in DOMAIN life :
    /\ Order(c).type = "cancel" /\ life[c].status = "filled" /\ life[c].nCancel = 1
    /\ life[c].target # Null
    /\ Life(life[c].target).status = "canceled"
    /\ Life(life[c].target).fillPercentage = CancelFill
    /\ Life(life[c].target).loss = CancelLoss

\* No buy or sell of position p is in a queue or on a processing list.
NoTradeWithPosition(p) ==
  \A type \in {"buy", "sell"} :
    /\ FindIndexByPosition(queues[type], p) = 0
    /\ FindIndexByPosition(processing[type], p) = 0

\* C12: processOrder on a cancel whose position id matches no buy or sell in
\* any queue or processing list, or whose target is already filled, canceled
\* or failed, leaves the cancel failed, issues no venue cancel, and changes
\* the status of no other instruction.
C12_CancelUnmatched ==
  [][\A p \in PositionIds, i \in ClientIndexIds, limit \in Limits :
       ProcessOrder("cancel", p, i, limit) =>
         LET t == getOrderByPositionId(queues, processing, p)
         IN NoTradeWithPosition(p) \/ (t # Null /\ isCompleteStatus(Life(t).status)) =>
              /\ Get(life', NextOid).status = "failed"
              /\ Get(life', NextOid).nCancel = 0
              /\ \A oid \in DOMAIN life : Get(life', oid).status = Life(oid).status
              /\ queues' = queues]_vars

\* The instruction is on some processing list.
InProcessing(pr, oid) == \E k \in Kinds : oid \in Range(pr[k])

\* C13: a step that fails an instruction (unknown basket, venue error,
\* rebalance error) appends one entry to that instruction's execution log and
\* changes no other instruction, no queue, no processing list and not the
\* history; and when the batch's instructions have all returned, completeBatch
\* moves every instruction of the batch, the failed ones included, from its
\* processing list to the history and clears the in-flight flag.
C13_FailureIsolated ==
  [][/\ \A oid \in OrderIds :
          Life(oid).status # "failed" /\ Get(life', oid).status = "failed" =>
            /\ Get(life', oid).notes = Life(oid).notes + 1
            /\ \A other \in OrderIds \ {oid} : Get(life', other) = Life(other)
            /\ queues' = queues /\ processing' = processing
            /\ executionHistory' = executionHistory
     /\ Finish =>
          /\ \A i \in 1..Len(proc.batch) :
               /\ proc.batch[i] \in Range(executionHistory')
               /\ ~InProcessing(processing', proc.batch[i])
          /\ Len(executionHistory') = Len(executionHistory) + Len(proc.batch)
          /\ ~isProcessing']_vars

\* The one batch admitted so far has been completed: it held an instruction
\* that failed and a sibling that was executed, and both are in the history.
C13_Witness ==
  /\ nCalls = 1 /\ proc = IdleProc /\ ~isProcessing
  /\ \E f, g \in Range(executionHistory) :
       /\ Life(f).status = "failed" /\ Life(f).notes >= 1
       /\ Life(g).status \in {"filled", "partially_filled"}
       /\ ~InProcessing(processing, f) /\ ~InProcessing(processing, g)

\* C14: when the venue's execution of a triggered buy or sell succeeds, the
\* recorded fill percentage is the filled quantity over the instruction's
\* target quantity, times 100: at 99.5 or more the instruction is filled with
\* fillPercentage exactly 100, below it the instruction is partially_filled
\* with that measured percentage; fillPercentage never exceeds 100.
C14_FillPercentage ==
  [][\A oid \in DOMAIN life, executionRate \in ExecutedLevels :
       ExecuteReturn(oid, TRUE, executionRate) =>
         LET filledQuantity == executeOrder(life[oid].planned, executionRate).totalFilledQuantity
             targetQuantity == Order(oid).quantity * PlanUnit
         IN /\ IF filledQuantity * 200 >= 199 * targetQuantity
               THEN /\ life'[oid].status = "filled"
                    /\ life'[oid].fillPercentage = 100
               ELSE /\ life'[oid].status = "partially_filled"
                    /\ life'[oid].fillPercentage * targetQuantity = filledQuantity * 100
            /\ life'[oid].fillPercentage <= 100]_vars

\* C15: when the venue's result for a triggered buy or sell of quantity 10
\* reports filled = 90 and loss = 2, the instruction ends partially_filled
\* with fillPercentage 90 and loss 2 after one liquidity analysis and one
\* venue execution; and whatever the venue reports as filled is the recorded
\* fillPercentage.
C15_VenueReportedFill ==
  [][\A oid \in DOMAIN life, executionRate \in ExecutedLevels :
       ExecuteReturn(oid, TRUE, executionRate) =>
         LET executionResult == executeOrder(life[oid].planned, executionRate)
         IN /\ life'[oid].fillPercentage = executionResult.filled
            /\ life'[oid].loss = executionResult.loss
            /\ life'[oid].nAnalyze = 1 /\ life'[oid].nExecute = 1
            /\ Order(oid).quantity = 10 /\ executionResult.filled = 90
                 => /\ life'[oid].status = "partially_filled"
                    /\ life'[oid].fillPercentage = 90
                    /\ life'[oid].loss = 2]_vars

\* C16: processOrder on a rebalance of a registered basket calls
\* createRebalancePlan and, when the plan is returned, executeRebalance, once
\* each; when executeRebalance returns the instruction is filled with the
\* result's total loss; when either throws, or the basket is not registered,
\* the instruction is failed.
C16_Rebalance ==
  [][/\ \A p \in PositionIds, i \in ClientIndexIds, limit \in Limits :
          ProcessOrder("rebalance", p, i, limit) =>
            LET l == Get(life', NextOid)
            IN IF i \in DOMAIN indices
               THEN /\ l.status = "processing" /\ l.stage = "plan"
                    /\ l.nPlan = 1 /\ l.nRebalance = 0
               ELSE /\ l.status = "failed" /\ l.stage = "none"
                    /\ l.nPlan = 0 /\ l.nRebalance = 0
     /\ \A oid \in DOMAIN life :
          /\ PlanReturn(oid, TRUE) =>
               /\ life'[oid].status = "processing" /\ life'[oid].stage = "rebalance"
               /\ life'[oid].nPlan = 1 /\ life'[oid].nRebalance = 1
          /\ PlanReturn(oid, FALSE) =>
               /\ life'[oid].status = "failed" /\ life'[oid].stage = "none"
               /\ life'[oid].nPlan = 1 /\ life'[oid].nRebalance = 0
          /\ RebalanceReturn(oid, TRUE) =>
               /\ life'[oid].status = "filled" /\ life'[oid].loss = RebalanceLoss
               /\ life'[oid].nPlan = 1 /\ life'[oid].nRebalance = 1
          /\ RebalanceReturn(oid, FALSE) =>
               /\ life'[oid].status = "failed"
               /\ life'[oid].nPlan = 1 /\ life'[oid].nRebalance = 1]_vars

\* A rebalance went through: planned once, executed once, filled with the
\* rebalance's total loss.
C16_Witness ==
  \E oid \in DOMAIN life :
    /\ Order(oid).type = "rebalance" /\ life[oid].status = "filled"
    /\ life[oid].loss = RebalanceLoss
    /\ life[oid].nPlan = 1 /\ life[oid].nRebalance = 1

(***************************************************************************)
(* The RebalanceManager and Index.rebalance on one basket. Quantities and  *)
(* prices are whole numbers.                                               *)
(***************************************************************************)
\* Prices an asset can take: a price update, or the mid price of its book.
AssetPrices == {5, 10}
\* The price generateRebalanceAssets gives an asset it adds.
NewAssetPrice == 10

\* The compositions generateRebalanceAssets may come up with (id, quantity):
\* the tests' target, which sells B and C and buys A and D; one that only
\* sells; one that only buys; one that changes nothing.
TargetCompositions ==
  {<<[id |-> "A", quantity |-> 2], [id |-> "D", quantity |-> 3]>>,
   <<[id |-> "A", quantity |-> 1], [id |-> "B", quantity |-> 1], [id |-> "C", quantity |-> 5]>>,
   <<[id |-> "A", quantity |-> 1], [id |-> "B", quantity |-> 2], [id |-> "C", quantity |-> 6]>>,
   <<[id |-> "A", quantity |-> 1], [id |-> "B", quantity |-> 2], [id |-> "C", quantity |-> 5]>>}

\* The compositions a client hands to index.rebalance itself: the tests' one,
\* and one whose asset has drifted from its reference price.
ClientCompositions ==
  {<<Asset("A", 2, 15, 15), Asset("D", 3, 5, 5)>>,
   <<Asset("A", 2, 10, 15), Asset("B", 2, 5, 5)>>}

\* The position of the asset with that id in a list of assets, 0 if absent.
FindAsset(assets, id) ==
  IF \E i \in 1..Len(assets) : assets[i].id = id
  THEN CHOOSE i \in 1..Len(assets) : assets[i].id = id /\ \A j \in 1..(i - 1) : assets[j].id # id
  ELSE 0

\* updateAssetPrices: every asset's currentPrice becomes the mid price of its
\* order book.
updateAssetPrices(assets, mid) ==
  [i \in 1..Len(assets) |-> [assets[i] EXCEPT !.currentPrice = mid]]

\* generateRebalanceAssets, for the composition drawn: an asset that is kept
\* is priced at its currentPrice, an added one at NewAssetPrice.
generateRebalanceAssets(assets, target) ==
  [i \in 1..Len(target) |->
     [id |-> target[i].id, quantity |-> target[i].quantity,
      price |-> IF FindAsset(assets, target[i].id) # 0
                THEN assets[FindAsset(assets, target[i].id)].currentPrice
                ELSE NewAssetPrice]]

\* calculateAssetChanges: one change per asset id, the current assets first
\* and then the added ones.
calculateAssetChanges(currentAssets, newAssets) ==
  LET ofCurrent ==
        [i \in 1..Len(currentAssets) |->
           LET c == currentAssets[i]
               j == FindAsset(newAssets, c.id)
           IN IF j = 0
              THEN [assetId |-> c.id, changeQuantity |-> 0 - c.quantity,
                    newPrice |-> c.currentPrice]
              ELSE [assetId |-> c.id,
                    changeQuantity |-> newAssets[j].quantity - c.quantity,
                    newPrice |-> newAssets[j].price]]
      added == SelectSeq(newAssets, LAMBDA n : FindAsset(currentAssets, n.id) = 0)
      ofAdded ==
        [i \in 1..Len(added) |->
           [assetId |-> added[i].id, changeQuantity |-> added[i].quantity,
            newPrice |-> added[i].price]]
  IN ofCurrent \o ofAdded

\* Faulty variant: nothing is taken for a sell.
SellsDropped(assetChanges) == <<>>

\* The changes executeRebalance sends to the venue as one sell order and as
\* one buy order.
Sells(assetChanges) == SelectSeq(assetChanges, LAMBDA ch : ch.changeQuantity < 0)
Buys(assetChanges) == SelectSeq(assetChanges, LAMBDA ch : ch.changeQuantity > 0)

\* Faulty variant of Asset construction in Index.rebalance: the reference
\* price of the asset handed in is kept.
rebalancedAssetKeepsReference(asset) ==
  Asset(asset.id, asset.quantity, asset.initialPrice, asset.currentPrice)

\* new Asset(asset.id, asset.quantity, asset.currentPrice, asset.currentPrice)
rebalancedAsset(asset) ==
  Asset(asset.id, asset.quantity, asset.currentPrice, asset.currentPrice)

\* index.rebalance(newAssets): the basket's assets afterwards.
rebalance(newAssets) == [i \in 1..Len(newAssets) |-> rebalancedAsset(newAssets[i])]

\* executeRebalance's newAssetsObjects: new Asset(id, quantity, price, price).
newAssetsObjects(newAssets) ==
  [i \in 1..Len(newAssets) |->
     Asset(newAssets[i].id, newAssets[i].quantity, newAssets[i].price, newAssets[i].price)]

\* PUT /api/indices/:indexId/assets/:assetId/price
UpdateAssetPrice(i, newPrice) ==
  /\ i \in 1..Len(rebal.assets)
  /\ rebal' = [rebal EXCEPT !.assets[i].currentPrice = newPrice]
  /\ UNCHANGED <<solverVars, est, venue>>

\* A client calls index.rebalance(newAssets) itself.
IndexRebalance(newAssets) ==
  /\ rebal' = [rebal EXCEPT !.assets = rebalance(newAssets)]
  /\ UNCHANGED <<solverVars, est, venue>>

\* createRebalancePlan(index, binanceAdapter): prices refreshed, a target
\* drawn, the changes computed.
CreateRebalancePlan(r, target, mid) ==
  /\ rebal.run[r].pc = "idle"
  /\ LET refreshed == updateAssetPrices(rebal.assets, mid)
         newAssets == generateRebalanceAssets(refreshed, target)
     IN rebal' = [rebal EXCEPT
          !.assets = refreshed,
          !.run[r] = [pc |-> "planned", newAssets |-> newAssets,
                      assetChanges |-> calculateAssetChanges(refreshed, newAssets),
                      log |-> <<>>]]
  /\ UNCHANGED <<solverVars, est, venue>>

\* The end of executeRebalance: the basket takes the new assets and the
\* result is pushed on rebalanceHistory.
Committed(rb, r) ==
  [rb EXCEPT !.assets = rebalance(newAssetsObjects(rb.run[r].newAssets)),
             !.history = @ + 1,
             !.run[r].pc = "done",
             !.run[r].log = Append(@, "committed")]

\* executeRebalance after the sell order, if any, has returned: the buy
\* order is submitted, or with nothing to buy the run ends.
AfterSells(rb, r) ==
  IF Buys(rb.run[r].assetChanges) # <<>>
  THEN [rb EXCEPT !.run[r].pc = "buying", !.run[r].log = Append(@, "buySubmitted")]
  ELSE Committed(rb, r)

\* executeRebalance(index, rebalancePlan, binanceAdapter) up to its first
\* await.
ExecuteRebalance(r) ==
  /\ rebal.run[r].pc = "planned"
  /\ rebal' =
       IF Sells(rebal.run[r].assetChanges) # <<>>
       THEN [rebal EXCEPT !.run[r].pc = "selling",
                          !.run[r].log = Append(@, "sellSubmitted")]
       ELSE AfterSells(rebal, r)
  /\ UNCHANGED <<solverVars, est, venue>>

\* The venue answered the sell order (or threw: executeRebalance throws).
SellReturned(r, ok) ==
  /\ rebal.run[r].pc = "selling"
  /\ rebal' =
       IF ok THEN AfterSells([rebal EXCEPT !.run[r].log = Append(@, "sellReturned")], r)
       ELSE [rebal EXCEPT !.run[r].pc = "failed"]
  /\ UNCHANGED <<solverVars, est, venue>>

\* Faulty variant: the run commits whether the buy order succeeded or threw.
BuyReturnedCommitsAnyway(r, ok) ==
  /\ rebal.run[r].pc = "buying"
  /\ rebal' = Committed([rebal EXCEPT !.run[r].log = Append(@, "buyReturned")], r)
  /\ UNCHANGED <<solverVars, est, venue>>

\* The venue answered the buy order (or threw).
BuyReturned(r, ok) ==
  /\ rebal.run[r].pc = "buying"
  /\ rebal' =
       IF ok THEN Committed([rebal EXCEPT !.run[r].log = Append(@, "buyReturned")], r)
       ELSE [rebal EXCEPT !.run[r].pc = "failed"]
  /\ UNCHANGED <<solverVars, est, venue>>

NextRebalance ==
  \/ \E i \in 1..3, newPrice \in AssetPrices : UpdateAssetPrice(i, newPrice)
  \/ \E newAssets \in ClientCompositions : IndexRebalance(newAssets)
  \/ \E r \in Runs, target \in TargetCompositions, mid \in AssetPrices :
       CreateRebalancePlan(r, target, mid)
  \/ \E r \in Runs : ExecuteRebalance(r)
  \/ \E r \in Runs, ok \in BOOLEAN : SellReturned(r, ok)
  \/ \E r \in Runs, ok \in BOOLEAN : BuyReturned(r, ok)

\* The rebalance engine on one basket, with price updates arriving between
\* its steps.
SpecRebalance == Init /\ [][NextRebalance]_vars

(***************************************************************************)
(* Properties of the rebalance engine.                                     *)
(***************************************************************************)
\* The ids and quantities of a list of assets.
Composition(assets) ==
  [i \in 1..Len(assets) |-> [id |-> assets[i].id, quantity |-> assets[i].quantity]]

\* How often an event is in a run's log, and whether it is there before
\* position k.
Occurrences(log, event) == Cardinality({i \in 1..Len(log) : log[i] = event})
Before(log, event, k) == \E j \in 1..(k - 1) : log[j] = event

\* The venue orders of one run are in order: each side is submitted at most
\* once; when the plan has something to sell, the buy order is submitted only
\* after the sell order was submitted and has returned; the basket is
\* committed only after every order submitted has returned.
RunOrdered(run) ==
  LET log == run.log
  IN /\ Occurrences(log, "sellSubmitted") <= 1
     /\ Occurrences(log, "buySubmitted") <= 1
     /\ \A k \in 1..Len(log) :
          /\ log[k] = "buySubmitted"
               /\ (\E i \in 1..Len(run.assetChanges) : run.assetChanges[i].changeQuantity < 0)
               => Before(log, "sellSubmitted", k) /\ Before(log, "sellReturned", k)
          /\ log[k] = "sellReturned" => Before(log, "sellSubmitted", k)
          /\ log[k] = "buyReturned" => Before(log, "buySubmitted", k)
          /\ log[k] = "committed" =>
               /\ Occurrences(log, "sellSubmitted") = Occurrences(log, "sellReturned")
               /\ Occurrences(log, "buySubmitted") = Occurrences(log, "buyReturned")
               /\ k = Len(log)

\* C17: in every run of executeRebalance the sell order is submitted and has
\* returned before the buy order is submitted, each side goes out as at most
\* one venue order, and the basket's composition is replaced only when a run
\* commits, after both orders have returned (or when a client calls
\* index.rebalance itself).
C17_SellsBeforeBuys ==
  [][/\ \A r \in Runs : RunOrdered(rebal'.run[r])
     /\ Composition(rebal'.assets) # Composition(rebal.assets) =>
          \/ \E newAssets \in ClientCompositions : IndexRebalance(newAssets)
          \/ \E r \in Runs :
               /\ rebal'.run[r].log = Append(rebal.run[r].log, "committed")
                    \/ \E e \in {"sellReturned", "buyReturned"} :
                         rebal'.run[r].log = rebal.run[r].log \o <<e, "committed">>
               /\ Composition(rebal'.assets) = Composition(rebal.run[r].newAssets)]_vars

\* A run sold, then bought, then committed.
C17_Witness ==
  \E r \in Runs :
    /\ rebal.run[r].pc = "done"
    /\ rebal.run[r].log =
         <<"sellSubmitted", "sellReturned", "buySubmitted", "buyReturned", "committed">>

\* C18: right after a rebalance of the basket, by a run of executeRebalance
\* or by a call of index.rebalance, every asset's initialPrice equals its
\* currentPrice and the basket's ids and quantities are those of the
\* composition handed in.
C18_ReferenceEqualsLive ==
  [][/\ \A newAssets \in ClientCompositions :
          IndexRebalance(newAssets) =>
            /\ \A i \in 1..Len(rebal'.assets) :
                 rebal'.assets[i].initialPrice = rebal'.assets[i].currentPrice
            /\ Composition(rebal'.assets) = Composition(newAssets)
     /\ \A r \in Runs :
          rebal'.run[r].pc = "done" /\ rebal.run[r].pc # "done" =>
            /\ \A i \in 1..Len(rebal'.assets) :
                 rebal'.assets[i].initialPrice = rebal'.assets[i].currentPrice
            /\ Composition(rebal'.assets) = Composition(rebal.run[r].newAssets)
            /\ rebal'.history = rebal.history + 1]_vars

\* The basket was rebalanced to a composition whose asset A had drifted from
\* its reference price, and a run of executeRebalance has committed too.
C18_Witness ==
  /\ rebal.history >= 1
  /\ Composition(rebal.assets) = Composition(<<Asset("A", 2, 10, 15), Asset("B", 2, 5, 5)>>)
  /\ \A i \in 1..Len(rebal.assets) :
       rebal.assets[i].initialPrice = rebal.assets[i].currentPrice

(***************************************************************************)
(* The full estimator: LiquidityAnalyzer.analyzeOrderLiquidity.            *)
(*                                                                         *)
(* The code computes in floating point.  Here a quotient is an exact       *)
(* fraction num/den with den > 0, and an asset quantity is counted in      *)
(* units of 1/currentPrice of the basket, so that nothing is rounded.      *)
(***************************************************************************)
\* MIN_ASSET_PURCHASE of utils/constants: the least notional bought per asset.
MIN_ASSET_PURCHASE == 5

\* The quantities an analysed instruction asks for: 0..MaxQuantity.
MaxQuantity == 6
EstimatorQuantities == 0..MaxQuantity

\* The limit prices of an analysed instruction.
EstimatorPrices == {10, 30}
Sides == {"buy", "sell"}

\* Order books of the venue, as the quantities of the levels from the best
\* price on: a deep book, a thin one, and an empty one.
OrderBooks ==
  { [asks |-> [a \in {"A", "B", "C"} |-> <<10, 10, 10>>],
     bids |-> [a \in {"A", "B", "C"} |-> <<10, 10, 10>>]],
    [asks |-> [A |-> <<1, 1>>, B |-> <<2, 1>>, C |-> <<3>>],
     bids |-> [A |-> <<2>>, B |-> <<1>>, C |-> <<4, 4>>]],
    [asks |-> [a \in {"A", "B", "C"} |-> <<>>],
     bids |-> [a \in {"A", "B", "C"} |-> <<>>]] }

Ratio(num, den) == [num |-> num, den |-> den]
RatioLess(a, b) == a.num * b.den < b.num * a.den
RatioLeq(a, b) == a.num * b.den <= b.num * a.den
Hundred == Ratio(100, 1)

\* Asset.getValue()
getValue(asset) == asset.quantity * asset.currentPrice

\* Index.getCurrentPrice(): the sum of the assets' values.
RECURSIVE assetsCurrentPrice(_)
assetsCurrentPrice(assets) ==
  IF assets = <<>> THEN 0
  ELSE getValue(Head(assets)) + assetsCurrentPrice(Tail(assets))

\* assetNotional < MIN_ASSET_PURCHASE, with
\* assetNotional = asset.getValue() / currentPrice * quantity * targetPrice.
belowMinimum(asset, currentPrice, quantity, targetPrice) ==
  getValue(asset) * quantity * targetPrice < MIN_ASSET_PURCHASE * currentPrice

\* assetTargetQty = assetNotional / asset.currentPrice, times currentPrice.
assetTargetQty(asset, quantity, targetPrice) ==
  (getValue(asset) * quantity * targetPrice) \div asset.currentPrice

\* Faulty variant of the walk: a level that would exceed the target ends the
\* walk without its remaining part being taken.
RECURSIVE fillableQtyWholeLevels(_, _, _)
fillableQtyWholeLevels(levels, fillable, target) ==
  IF levels = <<>> THEN fillable
  ELSE IF fillable + Head(levels) >= target THEN fillable
  ELSE fillableQtyWholeLevels(Tail(levels), fillable + Head(levels), target)

\* The walk down one side of the book (lines 176-194): whole levels while they
\* stay under the target, then the remaining part of the level that reaches it.
RECURSIVE fillableQty(_, _, _)
fillableQty(levels, fillable, target) ==
  IF levels = <<>> THEN fillable
  ELSE IF fillable + Head(levels) >= target THEN fillable + (target - fillable)
  ELSE fillableQty(Tail(levels), fillable + Head(levels), target)

\* One entry of assetAnalysis (lines 149-214).
analyzeAsset(asset, currentPrice, quantity, targetPrice, side, orderBook) ==
  IF belowMinimum(asset, currentPrice, quantity, targetPrice)
  THEN [assetId |-> asset.id, skip |-> TRUE, targetQuantity |-> 0,
        fillablePercent |-> Hundred]
  ELSE LET bookSide == IF side = "sell" THEN "bids" ELSE "asks"
           target == assetTargetQty(asset, quantity, targetPrice)
           levels == [i \in 1..Len(orderBook[bookSide][asset.id]) |->
                        orderBook[bookSide][asset.id][i] * currentPrice]
           fillable == fillableQty(levels, 0, target)
       IN [assetId |-> asset.id, skip |-> FALSE, targetQuantity |-> target,
           fillablePercent |-> Ratio(fillable * 100, target)]

\* Faulty variant of the reduce: the larger percentage is kept.
RECURSIVE worstAssetKeepsLarger(_, _)
worstAssetKeepsLarger(assetAnalysis, worst) ==
  IF assetAnalysis = <<>> THEN worst
  ELSE LET current == Head(assetAnalysis)
       IN worstAssetKeepsLarger(Tail(assetAnalysis),
                                IF current.skip THEN worst
                                ELSE IF RatioLess(worst, current.fillablePercent)
                                     THEN current.fillablePercent ELSE worst)

\* assetAnalysis.reduce(...) of lines 217-220, from { fillablePercent: 100 }.
RECURSIVE worstAsset(_, _)
worstAsset(assetAnalysis, worst) ==
  IF assetAnalysis = <<>> THEN worst
  ELSE LET current == Head(assetAnalysis)
       IN worstAsset(Tail(assetAnalysis),
                     IF current.skip THEN worst
                     ELSE IF RatioLess(current.fillablePercent, worst)
                          THEN current.fillablePercent ELSE worst)

\* analyzeOrderLiquidity(order, index, binanceAdapter, side): fillablePercent
\* and assetOrders of the result.  An asset order's quantity is the asset's
\* quantity in whole units, as a fraction.
analyzeOrderLiquidity(assets, quantity, targetPrice, side, orderBook) ==
  LET currentPrice == assetsCurrentPrice(assets)
      assetAnalysis == [i \in 1..Len(assets) |->
                          analyzeAsset(assets[i], currentPrice, quantity,
                                       targetPrice, side, orderBook)]
      worst == worstAsset(assetAnalysis, Hundred)
      overallFillablePercent == IF RatioLess(Hundred, worst) THEN Hundred ELSE worst
      kept == SelectSeq(assetAnalysis, LAMBDA a : ~a.skip)
  IN [fillablePercent |-> overallFillablePercent,
      assetOrders |->
        [i \in 1..Len(kept) |->
           [assetId |-> kept[i].assetId,
            quantity |-> Ratio(kept[i].targetQuantity * overallFillablePercent.num,
                               currentPrice * overallFillablePercent.den * 100),
            side |-> side]]]

\* A caller analyses an instruction against the basket as it is now.
AnalyzeOrderLiquidity(quantity, indexPrice, side, orderBook) ==
  /\ est' = [called |-> TRUE, assets |-> rebal.assets, quantity |-> quantity,
             indexPrice |-> indexPrice, side |-> side, orderBook |-> orderBook,
             result |-> analyzeOrderLiquidity(rebal.assets, quantity, indexPrice,
                                              side, orderBook)]
  /\ UNCHANGED <<solverVars, rebal, venue>>

NextEstimator ==
  \/ \E i \in 1..3, newPrice \in AssetPrices : UpdateAssetPrice(i, newPrice)
  \/ \E quantity \in EstimatorQuantities, indexPrice \in EstimatorPrices, side \in Sides,
        orderBook \in OrderBooks :
       AnalyzeOrderLiquidity(quantity, indexPrice, side, orderBook)

SpecEstimator == Init /\ [][NextEstimator]_vars

\* The estimate of the same call with another quantity.
EstimateFor(quantity) ==
  analyzeOrderLiquidity(est.assets, quantity, est.indexPrice, est.side, est.orderBook)

\* Every asset of the analysed basket is below the minimum at that quantity.
AllBelowMinimum(quantity) ==
  \A i \in 1..Len(est.assets) :
    belowMinimum(est.assets[i], assetsCurrentPrice(est.assets), quantity, est.indexPrice)

\* C19: for a fixed basket and order book, the estimator's fillablePercent lies
\* in [0, 100], is not larger than its value for any smaller quantity, and is
\* 100 with an empty asset plan when every asset's notional is below the
\* minimum, quantity 0 included.
C19_EstimatorMonotone ==
  est.called =>
    /\ RatioLeq(Ratio(0, 1), est.result.fillablePercent)
    /\ RatioLeq(est.result.fillablePercent, Hundred)
    /\ \A q \in 0..est.quantity :
         RatioLeq(est.result.fillablePercent, EstimateFor(q).fillablePercent)
    /\ AllBelowMinimum(est.quantity) =>
         /\ est.result.fillablePercent = Hundred
         /\ est.result.assetOrders = <<>>
    /\ EstimateFor(0).fillablePercent = Hundred
    /\ EstimateFor(0).assetOrders = <<>>

\* An estimate strictly between 0 and 100 whose smaller quantities include one
\* with every asset below the minimum and one with a strictly larger estimate
\* under 100.
C19_Witness ==
  /\ est.called
  /\ RatioLess(Ratio(0, 1), est.result.fillablePercent)
  /\ RatioLess(est.result.fillablePercent, Hundred)
  /\ \E q1 \in 1..est.quantity, q2 \in 1..est.quantity :
       /\ q1 < q2
       /\ AllBelowMinimum(q1)
       /\ RatioLess(est.result.fillablePercent, EstimateFor(q2).fillablePercent)
       /\ RatioLess(EstimateFor(q2).fillablePercent, Hundred)

(***************************************************************************)
(* Properties of queueOrder.                                               *)
(***************************************************************************)
\* C20: queueOrder of an instruction whose kind is none of buy, sell, cancel,
\* rebalance returns false and leaves the queues, the processing lists and the
\* history as they were; with one of the four kinds it appends the instruction
\* at the tail of exactly the queue of its kind and returns true.
C20_QueueOrder ==
  [][\A type \in ClientKinds, p \in PositionIds, limit \in Limits :
       ClientQueue(type, p, limit) =>
         IF type \in Kinds
         THEN /\ queueOrderOutcome(type) = "true"
              /\ queues' = [queues EXCEPT ![type] = Append(@, NextOid)]
              /\ UNCHANGED <<processing, executionHistory>>
         ELSE /\ queueOrderOutcome(type) = "false"
              /\ UNCHANGED <<queues, processing, executionHistory>>]_vars

(***************************************************************************)
(* Properties of the submission routes.                                    *)
(***************************************************************************)
\* C21: a buy or sell submission whose position id is already in the position
\* registry is rejected before it enters the queue: nothing is queued and the
\* registry is left as it was.
C21_DuplicateRejected ==
  [][\A p \in DOMAIN positions, quantity \in Quantities, limit \in Limits :
       SubmitBuy(p, "idx", quantity, limit) \/ SubmitSell(p, "idx", quantity, limit)
         => UNCHANGED <<queues, positions>>]_vars

(***************************************************************************)
(* Properties of the dispatcher tick and of the lists of the QueueManager  *)
(* in the assembled program.                                               *)
(***************************************************************************)
\* No processBatch call is in progress: none is suspended in getNextBatch and
\* none is starting or awaiting the instructions of a batch.
NoTickInProgress == Quiescent /\ proc.pc = "idle"

\* C22: once a dispatcher tick has finished, whether getNextBatch returned an
\* empty batch or not, the in-flight flag is clear (so that later ticks are
\* not held at the gate for ever).
C22_FlagClearAfterTick == NoTickInProgress => ~isProcessing

\* The statuses the lifecycle ends in.
TerminalStatuses == {"filled", "partially_filled", "canceled", "failed"}

\* C23: terminal statuses are absorbing: once an instruction is filled,
\* partially_filled, canceled or failed, no later step changes its status, in
\* any interleaving of the instructions of a batch.
C23_TerminalAbsorbing ==
  [][\A oid \in DOMAIN life :
       life[oid].status \in TerminalStatuses
         => Get(life', oid).status = life[oid].status]_vars

\* C24: no venue execution is issued for a buy or sell once a cancel has
\* marked it canceled; when a cancel and its target are admitted in the same
\* batch the target is not sent to the venue and is canceled when the tick is
\* over.
C24_NoExecuteAfterCancel ==
  [][\A c \in DOMAIN life :
       life[c].status = "filled" /\ life[c].target # Null
         => /\ Get(life', life[c].target).nExecute = Life(life[c].target).nExecute
            /\ NoTickInProgress' => Get(life', life[c].target).status = "canceled"]_vars

\* C25: every instruction in the execution history has a terminal status; an
\* instruction that is pending or processing is never in the history.
C25_HistoryTerminal ==
  \A i \in 1..Len(executionHistory) :
    Life(executionHistory[i]).status \in TerminalStatuses

\* C26: a buy or sell that regressed to pending (trigger condition not met, or
\* a full liquidity estimate of 0) is in its queue again once the tick that
\* processed it is over, so that a later tick can admit it.
C26_RegressedStaysQueued ==
  NoTickInProgress =>
    \A oid \in DOMAIN life :
      /\ OrderType(oid) \in {"buy", "sell"}
      /\ life[oid].status = "pending"
      /\ life[oid].notes > 0
      => InQueue(queues, oid)

\* The instructions held by the queues, by the processing lists and by the
\* history, counted with repetitions.
QueuedCount == Len(queues.buy) + Len(queues.sell) + Len(queues.cancel) + Len(queues.rebalance)
ProcessingCount ==
  Len(processing.buy) + Len(processing.sell) + Len(processing.cancel)
    + Len(processing.rebalance)
HeldCount == QueuedCount + ProcessingCount + Len(executionHistory)
Held ==
  UNION {Range(queues[k]) \cup Range(processing[k]) : k \in Kinds}
    \cup Range(executionHistory)

\* C27: instructions are never deleted: every instruction the routes have
\* queued is held by a queue, a processing list or the history, and queued +
\* processing + history equals the number of instructions queued, also after a
\* pending instruction is canceled.
C27_NeverDeleted ==
  /\ OrderIds \subseteq Held
  /\ HeldCount = Cardinality(OrderIds)

ReturnsAtOnce == GetNextBatchStep /\ call'[1].pc = "idle" /\ ret'[1].outcome = "admitted"
ReturnsAdmitted == ReturnsAtOnce \/ ResumeGetNextBatch(1)

\* The instructions of the returned batch have left their queues and are on
\* the processing lists of their kinds, and the in-flight flag is set.
BatchMoved ==
  /\ \A k \in Kinds :
       /\ Range(ret'[1].batch) \cap Range(queues'[k]) = {}
       /\ {oid \in Range(ret'[1].batch) : OrderType(oid) = k} \subseteq Range(processing'[k])
  /\ isProcessing'

C30_ProcessingEmptyWhenIdle == ~isProcessing /\ Quiescent => NothingInProcessing

\* A tick has completed a batch of two instructions while another instruction
\* stayed queued: the flag is clear and the history holds the batch.
C30_Witness ==
  /\ ~isProcessing
  /\ Quiescent
  /\ proc.pc = "idle"
  /\ Len(executionHistory) = 2
  /\ \E k \in Kinds : queues[k] # <<>>

(***************************************************************************)
(* Properties of the admission of buys and sells, for the client of Spec.  *)
(***************************************************************************)
\* The orders of one submission that draw alike have the same fields and the
\* same draw, hence the same score: an order stands for its class.
ClassOf(oid) == <<oid \div OidStride, oid % 2>>
RankOfClass(c, pat) ==
  LET e == Scored(c[1] * OidStride + (IF c[2] = 0 THEN 2 ELSE 1), pat)
  IN <<e[2], e[3]>>

\* <<fillable, notional>> of the orders of a set under a pattern of draws.
RanksOf(set, pat) == {RankOfClass(c, pat) : c \in {ClassOf(oid) : oid \in set}}

\* The orders of a set whose quick-check fillable percentage is above 0.
FillableOf(set, pat) ==
  LET liquid == {c \in {ClassOf(oid) : oid \in set} : RankOfClass(c, pat)[1] > 0}
  IN {oid \in set : ClassOf(oid) \in liquid}

\* Rank r1 is above rank r2: more fillable, or as fillable and of a larger
\* notional.
Above(r1, r2) == r1[1] > r2[1] \/ (r1[1] = r2[1] /\ r1[2] > r2[2])

\* The capacity left to buys and sells by a call suspended in the estimator.
CapacityLeft ==
  RATE_LIMIT - ordersInCurrentBatch' - Len(call'[1].cancellations)
    - Len(call'[1].rebalances)

\* The estimator's choice is made of queued buys and sells, none twice, and
\* no queued buy or sell left out ranks above one that was chosen.
ChosenByRank(pat) ==
  LET chosen == Range(call'[1].prioritized)
      queued == Range(queues'.buy) \cup Range(queues'.sell)
  IN /\ chosen \subseteq queued
     /\ Cardinality(chosen) = Len(call'[1].prioritized)
     /\ \A r1 \in RanksOf(queued \ chosen, pat), r2 \in RanksOf(chosen, pat) :
          ~Above(r1, r2)

FailingChecks(queued, pat) ==
  {oid \in queued : \/ Order(oid).indexId \notin DOMAIN indices
                    \/ quickCheckThrows(Order(oid), pat)}
PositiveChecks(queued, pat) ==
  {oid \in queued \ FailingChecks(queued, pat) : FillableUncaught(Order(oid), pat) > 0}

FifoCapacity ==
  LET elapsed == now - lastBatchTime
      counted == IF elapsed >= RATE_LIMIT_WINDOW_MS THEN 0 ELSE ordersInCurrentBatch
  IN Max(0, RATE_LIMIT - counted - (Len(queues.cancel) - Len(queues'.cancel))
                       - (Len(queues.rebalance) - Len(queues'.rebalance)))

\* The step takes the n oldest orders of a queue of one kind.
TakesOldest(type, n) ==
  /\ queues'[type] = SubSeq(queues[type], n + 1, Len(queues[type]))
  /\ processing'[type] = processing[type] \o SubSeq(queues[type], 1, n)

C34_LookupFindsTrades ==
  [][StartOrder /\ OrderType(proc.batch[proc.cursor]) = "cancel"
       => LET c == proc.batch[proc.cursor]
              t == getOrderByPositionId(queues, processing, Order(c).positionId)
          IN /\ t # c
             /\ t # Null => OrderType(t) \in {"buy", "sell"}
             /\ Get(life', c).status = "filled"
                  => /\ t # Null
                     /\ OrderType(t) \in {"buy", "sell"}
                     /\ Get(life', t).status = "canceled"]_vars

(***************************************************************************)
(* Properties of the estimate's composition, for the callers of            *)
(* SpecEstimator.                                                           *)
(***************************************************************************)
\* Two fractions are equal: their lowest terms are the same.
RECURSIVE Gcd(_, _)
Gcd(a, b) == IF b = 0 THEN a ELSE Gcd(b, a % b)
LowestTerms(r) == Ratio(r.num \div Gcd(r.num, r.den), r.den \div Gcd(r.num, r.den))
RatioEq(a, b) == LowestTerms(a) = LowestTerms(b)

\* The entry of assetAnalysis for the i-th asset of the analysed basket, and
\* the assets that are not excluded for a notional below the minimum.
EstAnalysis(i) ==
  analyzeAsset(est.assets[i], assetsCurrentPrice(est.assets), est.quantity,
               est.indexPrice, est.side, est.orderBook)
EstKept == {i \in 1..Len(est.assets) : ~EstAnalysis(i).skip}
EstDepth(i) ==
  est.orderBook[IF est.side = "sell" THEN "bids" ELSE "asks"][est.assets[i].id]

\* The i-th smallest member of a set of numbers.
RECURSIVE Nth(_, _)
Nth(set, i) ==
  LET least == CHOOSE x \in set : \A y \in set : x <= y
  IN IF i = 1 THEN least ELSE Nth(set \ {least}, i - 1)

VenueRequestLimit == 100
VenueWindowMs == 10000

\* The readings of Date.now() in the venue adapter.
VenueTimes == {0, 5000, 10000, 15000, 20000}

\* The requests counted in the window that starts at start, given those
\* counted in the window that started at venue.lastRequestTime.
ServedSince(start) == IF start = venue.lastRequestTime THEN venue.served ELSE 0

\* checkRateLimit, line 171: the caller has to wait.
sleeps(requestCount) == requestCount >= VenueRequestLimit

\* A venue call (getOrderBook, executeOrder, cancelOrder) enters
\* checkRateLimit (lines 159-179) and runs to its return, or to the sleep of
\* line 173 with the timer set to the end of the window.
CheckRateLimit(c) ==
  /\ venue.wake[c] = NoTimer
  /\ LET timeSinceLastRequest == venue.clock - venue.lastRequestTime
         reset == timeSinceLastRequest > VenueWindowMs
         requestCount == IF reset THEN 0 ELSE venue.requestCount
         lastRequestTime == IF reset THEN venue.clock ELSE venue.lastRequestTime
     IN IF sleeps(requestCount)
        THEN venue' = [venue EXCEPT
                         !.requestCount = requestCount,
                         !.lastRequestTime = lastRequestTime,
                         !.served = ServedSince(lastRequestTime),
                         !.wake[c] = venue.clock + (VenueWindowMs - timeSinceLastRequest)]
        ELSE venue' = [venue EXCEPT
                         !.requestCount = requestCount + 1,
                         !.lastRequestTime = lastRequestTime,
                         !.served = ServedSince(lastRequestTime) + 1]
  /\ UNCHANGED <<solverVars, rebal, est>>

\* The timer of a suspended caller has fired: lines 174-178.
WakeUp(c) ==
  /\ venue.wake[c] # NoTimer
  /\ venue.wake[c] <= venue.clock
  /\ venue' = [venue EXCEPT !.requestCount = 1,
                            !.lastRequestTime = venue.clock,
                            !.served = ServedSince(venue.clock) + 1,
                            !.wake[c] = NoTimer]
  /\ UNCHANGED <<solverVars, rebal, est>>

\* Time passes.
VenueAdvance ==
  /\ \E t \in VenueTimes : t > venue.clock /\ venue' = [venue EXCEPT !.clock = t]
  /\ UNCHANGED <<solverVars, rebal, est>>

NextVenue ==
  \/ \E c \in VenueCallers : CheckRateLimit(c)
  \/ \E c \in VenueCallers : WakeUp(c)
  \/ VenueAdvance

SpecVenue == Init /\ [][NextVenue]_vars

\* C36: the venue's rate limiter lets at most 100 requests proceed within one
\* of its windows, also with several venue calls pending at once; a caller
\* over the budget waits for the end of the window and then proceeds.
C36_VenueBudget ==
  /\ venue.served <= VenueRequestLimit
  /\ \A c \in VenueCallers :
        venue.wake[c] # NoTimer => venue.wake[c] <= venue.lastRequestTime + VenueWindowMs

(***************************************************************************)
(* Properties of a failing rebalance run, for the runs of SpecRebalance.   *)
(***************************************************************************)
\* The runs that commit in the step.
Committing == {r \in Runs : rebal'.run[r].pc = "done" /\ rebal.run[r].pc # "done"}

\* C37: when the venue's sell order or buy order fails during
\* executeRebalance, the basket keeps the composition and the prices it has,
\* those of the plan's price refresh, and nothing is appended to the
\* rebalance history, then or later for that run; the history grows by
\* exactly one record with every execution that succeeds.
C37_FailedRunLeavesBasket ==
  [][/\ \A r \in Runs :
          SellReturned(r, FALSE) \/ BuyReturned(r, FALSE)
            => /\ rebal'.assets = rebal.assets
               /\ rebal'.history = rebal.history
               /\ rebal'.run[r].pc = "failed"
     /\ \A r \in Runs : rebal.run[r].pc = "failed" => rebal'.run[r] = rebal.run[r]
     /\ rebal'.history = rebal.history + Cardinality(Committing)]_vars

\* One run failed on its buy order after its sell order had returned, while
\* the one record of the history is that of the other run, which committed.
C37_Witness ==
  \E r1, r2 \in Runs :
    /\ rebal.run[r1].pc = "failed"
    /\ rebal.run[r1].log = <<"sellSubmitted", "sellReturned", "buySubmitted">>
    /\ rebal.run[r2].pc = "done"
    /\ rebal.history = 1

(***************************************************************************)
(* Properties of the classification of statuses, for the processor of      *)
(* SpecProc.                                                                *)
(***************************************************************************)
\* The status processCancelOrder leaves on a cancel aimed at the instruction
\* oid, when the lookup finds oid on its processing list.
CancelAimedAt(oid) ==
  LET c == NextOid
      o == NewOrder(c, "cancel", Order(oid).positionId, NoIndex, Null, Null)
      found == [k \in Kinds |-> IF k = OrderType(oid) THEN <<oid>> ELSE <<>>]
      r == processOrderStart(c, o, life, [k \in Kinds |-> <<>>], found)
  IN Get(r.life, c).status

\* C38: every status an instruction reaches is exactly one of active
\* (pending, processing) or complete (every other one, partially_filled
\* included), and a cancel aimed at a partially_filled instruction is refused:
\* it fails.
C38_StatusesClassified ==
  \A oid \in DOMAIN life :
    /\ isActiveStatus(life[oid].status) # isCompleteStatus(life[oid].status)
    /\ isActiveStatus(life[oid].status) <=> life[oid].status \in {"pending", "processing"}
    /\ life[oid].status = "partially_filled" => CancelAimedAt(oid) = "failed"

====
